---- MODULE Spec2Model ----
(***************************************************************************)
(* Verification model of the inker backend.                                *)
(*                                                                         *)
(* Part 1: ScriptExecutorService                                           *)
(*   (backend/src/custom-widgets/services/script-executor.service.ts)      *)
(*                                                                         *)
(* Text is a sequence of one-character strings, so that the two regular    *)
(* expressions of the service (the denylist and the declared-variable      *)
(* scan) are computed character by character.                              *)
(***************************************************************************)
EXTENDS Integers, Sequences, FiniteSets, TLC

(***************************************************************************)
(* Text helpers                                                            *)
(***************************************************************************)
Chars(s) == [i \in 1..Len(s) |-> SubSeq(s, i, i)]

\* the element of a one-element set: Only({ e : x \in {v} }) is e with v named x
Only(S) == CHOOSE x \in S : TRUE

WordChars ==
  { Chars("abcdefghijklmnopqrstuvwxyzABCDEFGHIJKLMNOPQRSTUVWXYZ0123456789_")[i] :
      i \in 1..63 }

\* \w of the regular expression dialect
IsWordChar(ch) == ch \in WordChars

\* needle occurs in hay starting at index i
MatchesAt(hay, needle, i) ==
  /\ i >= 1
  /\ i + Len(needle) - 1 <= Len(hay)
  /\ \A k \in 1..Len(needle) : hay[i + k - 1] = needle[k]

\* String.prototype.includes (what the callers' toContain checks)
Contains(hay, needle) == \E i \in 1..(Len(hay) - Len(needle) + 1) : MatchesAt(hay, needle, i)

\* \b between position i and i+1 of s (0 <= i <= Len(s)): exactly one side is \w
WordBoundary(s, i) ==
  LET left  == i >= 1 /\ IsWordChar(s[i])
      right == i + 1 <= Len(s) /\ IsWordChar(s[i + 1])
  IN  left # right

RECURSIVE RemoveAll(_, _)
\* s.replace(/<needle>/g, '')
RemoveAll(s, needle) ==
  IF Len(s) = 0 THEN s
  ELSE IF MatchesAt(s, needle, 1)
       THEN RemoveAll(SubSeq(s, Len(needle) + 1, Len(s)), needle)
       ELSE <<s[1]>> \o RemoveAll(Tail(s), needle)

RECURSIVE Decimal(_)
\* the decimal rendering of a natural number in a template literal
Decimal(n) ==
  IF n < 10 THEN <<Chars("0123456789")[n + 1]>>
  ELSE Decimal(n \div 10) \o <<Chars("0123456789")[(n % 10) + 1]>>

(***************************************************************************)
(* Source text of a script.  A script is the characters `text` followed by *)
(* `tail` blanks: the blanks are what lets a script be longer than         *)
(* MAX_SCRIPT_LENGTH without a ten-thousand element sequence.  A blank is  *)
(* not \w and occurs in no denylisted token, so \b at the end of `text` is *)
(* the same with and without the blanks, and the declared-variable scan    *)
(* needs an identifier character after its \s+.                            *)
(***************************************************************************)
CodeLength(code) == Len(code.text) + code.tail

(***************************************************************************)
(* ScriptExecutorService: configuration fields                             *)
(***************************************************************************)
TIMEOUT_MS == 1000

MAX_SCRIPT_LENGTH == 10000

\* the denylist without its last pattern
DenylistWithoutLast ==
  << Chars("\\bconstructor\\b"), Chars("\\b__proto__\\b"), Chars("\\bprototype\\b"),
     Chars("\\bFunction\\b"), Chars("\\beval\\b"), Chars("\\bimport\\b"),
     Chars("\\bglobalThis\\b"), Chars("\\bprocess\\b"), Chars("\\brequire\\b"),
     Chars("\\bProxy\\b"), Chars("\\bReflect\\b"), Chars("\\bSymbol\\b"),
     Chars("\\bWeakRef\\b") >>

\* the `source` of each RegExp of BLOCKED_PATTERNS, in order
BLOCKED_PATTERNS ==
  << Chars("\\bconstructor\\b"),
     Chars("\\b__proto__\\b"),
     Chars("\\bprototype\\b"),
     Chars("\\bFunction\\b"),
     Chars("\\beval\\b"),
     Chars("\\bimport\\b"),
     Chars("\\bglobalThis\\b"),
     Chars("\\bprocess\\b"),
     Chars("\\brequire\\b"),
     Chars("\\bProxy\\b"),
     Chars("\\bReflect\\b"),
     Chars("\\bSymbol\\b"),
     Chars("\\bWeakRef\\b"),
     Chars("\\bFinalizationRegistry\\b") >>

\* the literal between the two \b of a pattern source
PatternLiteral(source) == SubSeq(source, 3, Len(source) - 2)

\* RegExp.prototype.test for a pattern of the shape \b<literal>\b (no g flag:
\* the search starts at 0 every time and leaves no state behind)
PatternTest(source, text) ==
  \E lit \in {PatternLiteral(source)} :
    \E i \in 1..(Len(text) - Len(lit) + 1) :
      /\ MatchesAt(text, lit, i)
      /\ WordBoundary(text, i - 1)
      /\ WordBoundary(text, i + Len(lit) - 1)

\* pattern.source.replace(/\\b/g, '')
PatternKeyword(source) == RemoveAll(source, Chars("\\b"))

TooLargeMessage(code) ==
  Chars("Script too large: ") \o Decimal(CodeLength(code))
    \o Chars(" characters (max ") \o Decimal(MAX_SCRIPT_LENGTH) \o Chars(")")

ForbiddenMessage(source) ==
  Chars("Script contains forbidden keyword: ") \o PatternKeyword(source)

\* index of the first pattern that tests true, 0 when none does
FirstBlocked(text) ==
  IF \E i \in 1..Len(BLOCKED_PATTERNS) : PatternTest(BLOCKED_PATTERNS[i], text)
  THEN CHOOSE i \in 1..Len(BLOCKED_PATTERNS) :
         /\ PatternTest(BLOCKED_PATTERNS[i], text)
         /\ \A j \in 1..(i - 1) : ~PatternTest(BLOCKED_PATTERNS[j], text)
  ELSE 0

\* the validator with a size check that also turns away code of exactly the
\* greatest length
validateBelowLimit(code) ==
  IF CodeLength(code) >= MAX_SCRIPT_LENGTH
  THEN [ok |-> FALSE, message |-> TooLargeMessage(code)]
  ELSE Only({ IF i # 0
              THEN [ok |-> FALSE, message |-> ForbiddenMessage(BLOCKED_PATTERNS[i])]
              ELSE [ok |-> TRUE] : i \in {FirstBlocked(code.text)} })

\* validateScript: [ok |-> TRUE] or the Error it throws
validateScript(code) ==
  IF CodeLength(code) > MAX_SCRIPT_LENGTH
  THEN [ok |-> FALSE, message |-> TooLargeMessage(code)]
  ELSE Only({ IF i # 0
              THEN [ok |-> FALSE, message |-> ForbiddenMessage(BLOCKED_PATTERNS[i])]
              ELSE [ok |-> TRUE] : i \in {FirstBlocked(code.text)} })

(***************************************************************************)
(* JavaScript values.  The record's fields depend on "t", and an object or *)
(* a function carries the realm it was created in: Host for the process    *)
(* that runs the service, a context id (1, 2, ...) for a vm context.       *)
(***************************************************************************)
Host == 0

Undefined == [t |-> "undefined"]

Null == [t |-> "null"]

Num(n) == [t |-> "number", n |-> n]

Str(s) == [t |-> "string", s |-> s]

Bool(b) == [t |-> "boolean", b |-> b]

\* a plain object: props is a sequence of [k |-> key text, v |-> value]
Obj(realm, props) == [t |-> "object", realm |-> realm, props |-> props]

\* a function whose body is the single statement `body`
Fn(realm, body) == [t |-> "function", realm |-> realm, body |-> body]

\* a built-in of a realm (Math, JSON, parseInt, Function, ...)
Builtin(realm, name) == [t |-> "builtin", realm |-> realm, name |-> name]

\* an Error instance: `realm` is the realm whose Error constructor made it
Err(realm, name, message) ==
  [t |-> "error", realm |-> realm, name |-> name, message |-> message]

BigInt == [t |-> "bigint"]

\* an object of the caller that refers to itself
Cyclic == [t |-> "cyclic", realm |-> Host]

NoValue == [t |-> "none"]

IsReference(v) == v.t \in {"object", "function", "builtin", "error", "cyclic"}

HasProp(o, key) == o.t = "object" /\ \E i \in 1..Len(o.props) : o.props[i].k = key

GetProp(o, key) ==
  IF HasProp(o, key)
  THEN o.props[CHOOSE i \in 1..Len(o.props) : o.props[i].k = key].v
  ELSE Undefined

RECURSIVE RefsOf(_)
\* the realms of every object reachable from a value
RefsOf(v) ==
  IF v.t = "object"
  THEN {v.realm} \cup UNION { RefsOf(v.props[i].v) : i \in 1..Len(v.props) }
  ELSE IF IsReference(v) THEN {v.realm} ELSE {}

(***************************************************************************)
(* JSON text.  JSONStringify gives [k |-> "text", s |-> chars], or         *)
(* [k |-> "undefined"] (a value with no JSON form at the top level), or    *)
(* [k |-> "throw", v |-> the TypeError of the calling realm].              *)
(***************************************************************************)
RECURSIVE QuoteBody(_)
\* the characters of a string with " and \ escaped by a backslash
QuoteBody(s) ==
  IF Len(s) = 0 THEN s
  ELSE IF Len(s) = 1 THEN (IF s[1] \in {"\"", "\\"} THEN <<"\\", s[1]>> ELSE s)
  ELSE QuoteBody(SubSeq(s, 1, Len(s) \div 2)) \o QuoteBody(SubSeq(s, Len(s) \div 2 + 1, Len(s)))

\* a string between quotes with nothing in it escaped
QuoteUnescaped(s) == <<"\"">> \o s \o <<"\"">>

\* JSON.stringify of a string: the quoted, escaped literal
Quote(s) == <<"\"">> \o QuoteBody(s) \o <<"\"">>

RECURSIVE Throws(_)
\* JSON.stringify throws a TypeError on a BigInt and on a cycle, at any depth
Throws(v) ==
  \/ v.t \in {"bigint", "cyclic"}
  \/ v.t = "object" /\ \E i \in 1..Len(v.props) : Throws(v.props[i].v)

\* a property whose value has no JSON form is left out of its object
Omitted(v) == v.t \in {"undefined", "function", "builtin"}

RECURSIVE StringifyText(_)
RECURSIVE StringifyProps(_, _)
StringifyProps(props, first) ==
  IF Len(props) = 0 THEN <<>>
  ELSE IF Omitted(props[1].v) THEN StringifyProps(Tail(props), first)
  ELSE (IF first THEN <<>> ELSE <<",">>)
         \o Quote(props[1].k) \o <<":">> \o StringifyText(props[1].v)
         \o StringifyProps(Tail(props), FALSE)

StringifyText(v) ==
  CASE v.t = "null"    -> Chars("null")
    [] v.t = "number"  -> (IF v.n < 0 THEN <<"-">> \o Decimal(-v.n) ELSE Decimal(v.n))
    [] v.t = "string"  -> Quote(v.s)
    [] v.t = "boolean" -> (IF v.b THEN Chars("true") ELSE Chars("false"))
    [] v.t = "object"  -> <<"{">> \o StringifyProps(v.props, TRUE) \o <<"}">>
    [] v.t = "error"   -> Chars("{}")
    [] OTHER           -> Chars("null")

JSONStringify(v, realm) ==
  IF Throws(v)
  THEN [k |-> "throw",
        v |-> Err(realm, Chars("TypeError"),
                  IF v.t = "bigint" THEN Chars("Do not know how to serialize a BigInt")
                  ELSE Chars("Converting circular structure to JSON"))]
  ELSE IF Omitted(v) THEN [k |-> "undefined"]
  ELSE [k |-> "text", s |-> StringifyText(v)]

(***************************************************************************)
(* JSON.parse, a recursive-descent reader of the text JSON.stringify       *)
(* writes (no blanks).  Each reader gives [ok, v, next]: the value read    *)
(* and the index after it.  Objects are created in `realm`.                *)
(***************************************************************************)
Digits == { Chars("0123456789")[i] : i \in 1..10 }

DigitValue(ch) == CHOOSE d \in 0..9 : Chars("0123456789")[d + 1] = ch

ParseFail == [ok |-> FALSE]

RECURSIVE ReadDigits(_, _, _)
\* the digits from index i on, with the number read so far
ReadDigits(s, i, acc) ==
  IF i <= Len(s) /\ s[i] \in Digits
  THEN ReadDigits(s, i + 1, acc * 10 + DigitValue(s[i]))
  ELSE [n |-> acc, next |-> i]

ReadNumber(s, i) ==
  LET neg   == i <= Len(s) /\ s[i] = "-"
      start == IF neg THEN i + 1 ELSE i
  IN  IF start <= Len(s) /\ s[start] \in Digits
      THEN Only({ [ok |-> TRUE, v |-> Num(IF neg THEN -r.n ELSE r.n), next |-> r.next] :
                    r \in {ReadDigits(s, start, 0)} })
      ELSE ParseFail

\* the backslashes in a row that end just before index j, none before index i
SlashRun(s, i, j) ==
  CHOOSE r \in 0..(j - i) :
    /\ \A m \in (j - r)..(j - 1) : s[m] = "\\"
    /\ r = j - i \/ s[j - r - 1] # "\\"

\* the character at index j follows a backslash that escapes it
IsEscaped(s, i, j) == SlashRun(s, i, j) % 2 = 1

\* the characters of a string literal from index i on, up to its closing
\* quote: \" and \\ give " and \, any other use of \ is an error
ReadStringBody(s, i) ==
  LET closes == { j \in i..Len(s) : s[j] = "\"" /\ ~IsEscaped(s, i, j) }
  IN  IF closes = {} THEN ParseFail
      ELSE LET close      == CHOOSE j \in closes : \A k \in closes : j <= k
               Escapes(k) == s[k] = "\\" /\ ~IsEscaped(s, i, k)
               Kept(k)    == ~Escapes(k)
               kept       == SelectSeq([n \in 1..(close - i) |-> i + n - 1], Kept)
           IN  IF \E k \in i..(close - 1) : Escapes(k) /\ s[k + 1] \notin {"\"", "\\"}
               THEN ParseFail
               ELSE [ok |-> TRUE, v |-> Str([n \in 1..Len(kept) |-> s[kept[n]]]),
                     next |-> close + 1]

ReadString(s, i) ==
  IF i <= Len(s) /\ s[i] = "\"" THEN ReadStringBody(s, i + 1) ELSE ParseFail

RECURSIVE ReadValue(_, _, _)
RECURSIVE ReadMembers(_, _, _, _)
\* the members of an object from index i on (after "{" or ","), up to "}"
ReadMembers(s, i, realm, acc) ==
  Only({ IF ~key.ok \/ key.next > Len(s) \/ s[key.next] # ":" THEN ParseFail
         ELSE Only({ IF ~val.ok \/ val.next > Len(s) THEN ParseFail
                     ELSE IF s[val.next] = "}"
                     THEN [ok |-> TRUE,
                           v |-> Obj(realm, Append(acc, [k |-> key.v.s, v |-> val.v])),
                           next |-> val.next + 1]
                     ELSE IF s[val.next] = ","
                     THEN ReadMembers(s, val.next + 1, realm,
                                      Append(acc, [k |-> key.v.s, v |-> val.v]))
                     ELSE ParseFail :
                     val \in {ReadValue(s, key.next + 1, realm)} }) :
         key \in {ReadString(s, i)} })

ReadValue(s, i, realm) ==
  IF i > Len(s) THEN ParseFail
  ELSE IF MatchesAt(s, Chars("null"), i) THEN [ok |-> TRUE, v |-> Null, next |-> i + 4]
  ELSE IF MatchesAt(s, Chars("true"), i) THEN [ok |-> TRUE, v |-> Bool(TRUE), next |-> i + 4]
  ELSE IF MatchesAt(s, Chars("false"), i) THEN [ok |-> TRUE, v |-> Bool(FALSE), next |-> i + 5]
  ELSE IF s[i] = "\"" THEN ReadString(s, i)
  ELSE IF s[i] = "{"
       THEN IF i + 1 <= Len(s) /\ s[i + 1] = "}"
            THEN [ok |-> TRUE, v |-> Obj(realm, <<>>), next |-> i + 2]
            ELSE ReadMembers(s, i + 1, realm, <<>>)
  ELSE ReadNumber(s, i)

\* JSON.parse(text) run in `realm`: the value, or the SyntaxError of that realm
JSONParse(text, realm) ==
  Only({ IF r.ok /\ r.next = Len(text) + 1
         THEN [k |-> "value", v |-> r.v]
         ELSE [k |-> "throw",
               v |-> Err(realm, Chars("SyntaxError"), Chars("Unexpected token in JSON"))] :
         r \in {ReadValue(text, 1, realm)} })

(***************************************************************************)
(* Scripts.  The engine that compiles and runs the text (V8, behind        *)
(* vm.Script and runInContext) is outside the repository; it is modelled   *)
(* as an interpreter of the small statement language below.  A script is   *)
(* a sequence of statements, its source text is ProgText of it.            *)
(*   statements  [s |-> "return", e]  [s |-> "throw", e]                   *)
(*               [s |-> "var", kw, name, e]   kw is var, let or const      *)
(*               [s |-> "assign", name, e]    name = e;                    *)
(*               [s |-> "while"]              while(true) {}               *)
(*               [s |-> "block", body]        { ... }                      *)
(*               [s |-> "comment", text]      /* ... */                    *)
(*               [s |-> "garbage"]            text that does not compile   *)
(*   expressions [e |-> "num", n] [e |-> "str", s] [e |-> "id", name]      *)
(*               [e |-> "this"] [e |-> "typeof", name]                     *)
(*               [e |-> "member", of, name] [e |-> "mul", l, r]            *)
(*               [e |-> "add", l, r] [e |-> "fn", body]                    *)
(*               [e |-> "objlit", props]                                   *)
(***************************************************************************)
ENum(n) == [e |-> "num", n |-> n]

EStr(s) == [e |-> "str", s |-> Chars(s)]

EId(name) == [e |-> "id", name |-> Chars(name)]

EThis == [e |-> "this"]

ETypeof(name) == [e |-> "typeof", name |-> Chars(name)]

EMember(of, name) == [e |-> "member", of |-> of, name |-> Chars(name)]

EMul(l, r) == [e |-> "mul", l |-> l, r |-> r]

EAdd(l, r) == [e |-> "add", l |-> l, r |-> r]

EFn(body) == [e |-> "fn", body |-> body]

EObj(props) == [e |-> "objlit", props |-> props]

\* Math.random()
ERandom == [e |-> "random"]

SReturn(e) == [s |-> "return", e |-> e]

SThrow(e) == [s |-> "throw", e |-> e]

SVar(kw, name, e) == [s |-> "var", kw |-> Chars(kw), name |-> Chars(name), e |-> e]

SAssign(name, e) == [s |-> "assign", name |-> Chars(name), e |-> e]

SWhile == [s |-> "while"]

SBlock(body) == [s |-> "block", body |-> body]

SComment(text) == [s |-> "comment", text |-> Chars(text)]

SGarbage == [s |-> "garbage"]

RECURSIVE ExprText(_)
RECURSIVE StmtText(_)
RECURSIVE ProgText(_)
RECURSIVE PropsText(_)
PropsText(props) ==
  IF Len(props) = 0 THEN <<>>
  ELSE props[1].k \o Chars(": ") \o ExprText(props[1].v)
         \o (IF Len(props) > 1 THEN Chars(", ") ELSE <<>>) \o PropsText(Tail(props))

ExprText(e) ==
  CASE e.e = "num"    -> Decimal(e.n)
    [] e.e = "str"    -> Quote(e.s)
    [] e.e = "id"     -> e.name
    [] e.e = "this"   -> Chars("this")
    [] e.e = "typeof" -> Chars("typeof ") \o e.name
    [] e.e = "member" -> ExprText(e.of) \o <<".">> \o e.name
    [] e.e = "mul"    -> ExprText(e.l) \o Chars(" * ") \o ExprText(e.r)
    [] e.e = "add"    -> ExprText(e.l) \o Chars(" + ") \o ExprText(e.r)
    [] e.e = "fn"     -> Chars("function(){ ") \o StmtText(e.body) \o Chars(" }")
    [] e.e = "objlit" -> <<"{">> \o PropsText(e.props) \o <<"}">>
    [] e.e = "random" -> Chars("Math.random()")

StmtText(st) ==
  CASE st.s = "return"  -> Chars("return ") \o ExprText(st.e) \o <<";">>
    [] st.s = "throw"   -> Chars("throw ") \o ExprText(st.e) \o <<";">>
    [] st.s = "var"     -> st.kw \o <<" ">> \o st.name \o Chars(" = ") \o ExprText(st.e) \o <<";">>
    [] st.s = "assign"  -> st.name \o Chars(" = ") \o ExprText(st.e) \o <<";">>
    [] st.s = "while"   -> Chars("while(true) {}")
    [] st.s = "block"   -> Chars("{ ") \o ProgText(st.body) \o Chars(" }")
    [] st.s = "comment" -> Chars("/* ") \o st.text \o Chars(" */")
    [] st.s = "garbage" -> Chars("return {{{;")

ProgText(prog) ==
  IF Len(prog) = 0 THEN <<>>
  ELSE StmtText(prog[1]) \o (IF Len(prog) > 1 THEN <<" ">> ELSE <<>>) \o ProgText(Tail(prog))

(***************************************************************************)
(* Environments: a sequence of [k |-> name, v |-> value], like the props   *)
(* of an object.                                                           *)
(***************************************************************************)
EnvHas(env, name) == \E i \in 1..Len(env) : env[i].k = name

EnvGet(env, name) == env[CHOOSE i \in 1..Len(env) : env[i].k = name].v

EnvSet(env, name, v) ==
  IF EnvHas(env, name)
  THEN [i \in 1..Len(env) |-> IF env[i].k = name THEN [k |-> name, v |-> v] ELSE env[i]]
  ELSE Append(env, [k |-> name, v |-> v])

(***************************************************************************)
(* A realm (a vm context).  `builtins` are the globals V8 gives every new  *)
(* context; `sandbox` holds the own properties of the contextified object, *)
(* which a global lookup consults first.                                   *)
(***************************************************************************)
ContextBuiltins ==
  { Chars("Object"), Chars("Function"), Chars("eval"), Chars("Error"), Chars("String"),
    Chars("Math"), Chars("JSON"), Chars("parseInt"), Chars("parseFloat"),
    Chars("Proxy"), Chars("Reflect"), Chars("Symbol"), Chars("WeakRef"),
    Chars("FinalizationRegistry"), Chars("globalThis") }

NamespaceBuiltins == { Chars("Math"), Chars("JSON"), Chars("Reflect"), Chars("globalThis") }

GlobalBound(realm, name) == EnvHas(realm.sandbox, name) \/ name \in realm.builtins

\* the value a global name resolves to in a realm (id is the realm's context id)
GlobalGet(realm, id, name) ==
  IF EnvHas(realm.sandbox, name) THEN EnvGet(realm.sandbox, name)
  ELSE IF name \in realm.builtins THEN Builtin(id, name)
  ELSE Undefined

TypeofValue(v) ==
  CASE v.t \in {"undefined", "none"} -> Chars("undefined")
    [] v.t = "number"   -> Chars("number")
    [] v.t = "string"   -> Chars("string")
    [] v.t = "boolean"  -> Chars("boolean")
    [] v.t = "bigint"   -> Chars("bigint")
    [] v.t = "function" -> Chars("function")
    [] v.t = "builtin"  -> (IF v.name \in NamespaceBuiltins THEN Chars("object")
                            ELSE Chars("function"))
    [] OTHER            -> Chars("object")

(***************************************************************************)
(* The interpreter.  A run state is [locals, sandbox, out]: the bindings   *)
(* of the wrapper function, the context object's properties, and the       *)
(* completion: none, return v, throw v, or loop (never completes).         *)
(***************************************************************************)
Completed(k) == [k |-> k]

Returned(v) == [k |-> "return", v |-> v]

Thrown(v) == [k |-> "throw", v |-> v]

Value(v) == [k |-> "value", v |-> v]

RECURSIVE Eval(_, _, _, _)
RECURSIVE EvalProps(_, _, _, _)
\* the properties of an object literal, or the first throw among them
EvalProps(props, st, ctx, this) ==
  IF Len(props) = 0 THEN Value(<<>>)
  ELSE Only({ IF head.k = "throw" THEN head
              ELSE Only({ IF rest.k = "throw" THEN rest
                          ELSE Value(<<[k |-> props[1].k, v |-> head.v]>> \o rest.v) :
                          rest \in {EvalProps(Tail(props), st, ctx, this)} }) :
              head \in {Eval(props[1].v, st, ctx, this)} })

\* an expression evaluated in context `ctx`: Value(v) or Thrown(v)
Eval(e, st, ctx, this) ==
  CASE e.e = "num" -> Value(Num(e.n))
    [] e.e = "str" -> Value(Str(e.s))
    [] e.e = "this" -> Value(this)
    [] e.e = "id" ->
         IF EnvHas(st.locals, e.name) THEN Value(EnvGet(st.locals, e.name))
         ELSE IF GlobalBound(st, e.name) THEN Value(GlobalGet(st, ctx, e.name))
         ELSE Thrown(Err(ctx, Chars("ReferenceError"), e.name \o Chars(" is not defined")))
    [] e.e = "typeof" ->
         IF EnvHas(st.locals, e.name) THEN Value(Str(TypeofValue(EnvGet(st.locals, e.name))))
         ELSE Value(Str(TypeofValue(GlobalGet(st, ctx, e.name))))
    [] e.e = "member" ->
         Only({ IF o.k = "throw" THEN o
                ELSE IF o.v.t \in {"undefined", "null"}
                THEN Thrown(Err(ctx, Chars("TypeError"),
                                Chars("Cannot read properties of ") \o TypeofValue(o.v)))
                ELSE Value(GetProp(o.v, e.name)) :
                o \in {Eval(e.of, st, ctx, this)} })
    [] e.e \in {"mul", "add"} ->
         Only({ IF lr[1].k = "throw" THEN lr[1]
                ELSE IF lr[2].k = "throw" THEN lr[2]
                ELSE IF lr[1].v.t = "number" /\ lr[2].v.t = "number"
                THEN Value(Num(IF e.e = "mul" THEN lr[1].v.n * lr[2].v.n
                               ELSE lr[1].v.n + lr[2].v.n))
                ELSE Value(Undefined) :
                lr \in {<<Eval(e.l, st, ctx, this), Eval(e.r, st, ctx, this)>>} })
    [] e.e = "fn" -> Value(Fn(ctx, e.body))
    [] e.e = "objlit" ->
         Only({ IF ps.k = "throw" THEN ps ELSE Value(Obj(ctx, ps.v)) :
                ps \in {EvalProps(e.props, st, ctx, this)} })
    [] e.e = "random" ->
         IF ~EnvHas(st.locals, Chars("Math"))
              /\ GlobalGet(st, ctx, Chars("Math")) = Builtin(ctx, Chars("Math"))
         THEN Value(Num(st.random))
         ELSE Thrown(Err(ctx, Chars("TypeError"), Chars("Math.random is not a function")))

\* the names a block declares with let or const: they end with the block
BlockScoped(body) ==
  { body[i].name : i \in { j \in 1..Len(body) :
       body[j].s = "var" /\ body[j].kw \in {Chars("let"), Chars("const")} } }

\* the bindings after a block: its let and const names end with it (an outer
\* binding of the same name is there again), everything else is kept
LeaveBlock(before, after, body) ==
  LET scoped   == BlockScoped(body)
      restored == [i \in 1..Len(after) |->
                     IF after[i].k \in scoped /\ EnvHas(before, after[i].k)
                     THEN [k |-> after[i].k, v |-> EnvGet(before, after[i].k)]
                     ELSE after[i]]
      Keep(p)  == p.k \notin scoped \/ EnvHas(before, p.k)
  IN  SelectSeq(restored, Keep)

RECURSIVE Exec(_, _, _, _)
\* the statements of `prog` run in order from run state `st`
Exec(prog, st, ctx, this) ==
  IF Len(prog) = 0 \/ st.out.k # "none" THEN st
  ELSE
    Only({ Exec(Tail(prog), next, ctx, this) : next \in {
      CASE prog[1].s \in {"return", "throw"} ->
             Only({ IF r.k = "throw" THEN [st EXCEPT !.out = r]
                    ELSE [st EXCEPT !.out = IF prog[1].s = "return" THEN Returned(r.v)
                                             ELSE Thrown(r.v)] :
                    r \in {Eval(prog[1].e, st, ctx, this)} })
        [] prog[1].s = "var" ->
             Only({ IF r.k = "throw" THEN [st EXCEPT !.out = r]
                    ELSE [st EXCEPT !.locals = EnvSet(st.locals, prog[1].name, r.v)] :
                    r \in {Eval(prog[1].e, st, ctx, this)} })
        [] prog[1].s = "assign" ->
             Only({ IF r.k = "throw" THEN [st EXCEPT !.out = r]
                    ELSE IF EnvHas(st.locals, prog[1].name)
                    THEN [st EXCEPT !.locals = EnvSet(st.locals, prog[1].name, r.v)]
                    ELSE [st EXCEPT !.sandbox = EnvSet(st.sandbox, prog[1].name, r.v)] :
                    r \in {Eval(prog[1].e, st, ctx, this)} })
        [] prog[1].s = "while" -> [st EXCEPT !.out = Completed("loop")]
        [] prog[1].s = "block" ->
             Only({ [inner EXCEPT !.locals = LeaveBlock(st.locals, inner.locals, prog[1].body)] :
                    inner \in {Exec(prog[1].body, st, ctx, this)} })
        [] OTHER -> st } })

RECURSIVE HasGarbage(_)
\* the text holds something the compiler rejects
HasGarbage(prog) ==
  \E i \in 1..Len(prog) :
     \/ prog[i].s = "garbage"
     \/ prog[i].s = "block" /\ HasGarbage(prog[i].body)

(***************************************************************************)
(* What the host does with a value a script threw.                         *)
(***************************************************************************)
Text(s) == [k |-> "text", s |-> s]

\* String(v) evaluated by the host: Text(s), Thrown(v) or Completed("loop").
\* An object with its own toString has that function called, with the object
\* as `this`, by the caller of String: outside runInContext and its timeout.
HostString(v, realms) ==
  CASE v.t = "string"    -> Text(v.s)
    [] v.t = "number"    -> Text(IF v.n < 0 THEN <<"-">> \o Decimal(-v.n) ELSE Decimal(v.n))
    [] v.t = "boolean"   -> Text(IF v.b THEN Chars("true") ELSE Chars("false"))
    [] v.t = "undefined" -> Text(Chars("undefined"))
    [] v.t = "null"      -> Text(Chars("null"))
    [] v.t = "error"     -> Text(v.name \o Chars(": ") \o v.message)
    [] v.t = "object" ->
         Only({ IF f.t = "function" /\ f.realm # Host
                THEN Only({ CASE out.k = "loop"  -> Completed("loop")
                              [] out.k = "throw" -> Thrown(out.v)
                              [] out.k = "return" /\ out.v.t = "string" -> Text(out.v.s)
                              [] OTHER -> Text(Chars("undefined")) :
                            out \in {Exec(<<f.body>>,
                                          [locals |-> <<>>,
                                           sandbox |-> realms[f.realm].sandbox,
                                           builtins |-> realms[f.realm].builtins,
                                           random |-> realms[f.realm].random,
                                           out |-> Completed("none")],
                                          f.realm, v).out} })
                ELSE Text(Chars("[object Object]")) :
                f \in {GetProp(v, Chars("toString"))} })
    [] OTHER -> Text(Chars("function () { [native code] }"))

\* String(v) runs a function the script wrote
RunsUserCode(v) ==
  v.t = "object" /\ GetProp(v, Chars("toString")).t = "function"
                 /\ GetProp(v, Chars("toString")).realm # Host

\* error instanceof Error ? error.message : String(error)
\* (instanceof tests against the host's Error: an Error made in a context is not one)
ErrorMessage(error, realms) ==
  IF error.t = "error" /\ error.realm = Host
  THEN Text(error.message)
  ELSE HostString(error, realms)

(***************************************************************************)
(* execute(): building the context                                         *)
(***************************************************************************)
\* const context = Object.create(null); vm.createContext(context)
\* what a context's Math.random gives before the script has drawn from it
Unseeded == 0

NewContext == [sandbox |-> <<>>, builtins |-> ContextBuiltins, random |-> Unseeded]

\* the names execute() assigns undefined to, in order
ScrubbedNames ==
  << Chars("Function"), Chars("eval"), Chars("constructor"), Chars("__proto__"),
     Chars("WeakRef"), Chars("FinalizationRegistry"), Chars("Proxy"), Chars("Reflect"),
     Chars("Symbol") >>

RECURSIVE AssignAll(_, _, _)
\* context[name] = v for each name
AssignAll(sandbox, names, v) ==
  IF Len(names) = 0 THEN sandbox
  ELSE AssignAll(EnvSet(sandbox, names[1], v), Tail(names), v)

\* context.Function = undefined; ... context.Symbol = undefined
ScrubContext(realm) == [realm EXCEPT !.sandbox = AssignAll(realm.sandbox, ScrubbedNames, Undefined)]

(***************************************************************************)
(* execute(): injecting the data                                           *)
(***************************************************************************)
InitPrefix == Chars("var $ = JSON.parse(")

InitSuffix == Chars(");")

\* an initScript with the JSON text of the data pasted in as it is
InitScriptUnquoted(data) ==
  Only({ IF dataJson.k = "throw" THEN dataJson
         ELSE Text(InitPrefix
                     \o (IF dataJson.k = "undefined" THEN Chars("undefined") ELSE dataJson.s)
                     \o InitSuffix) :
         dataJson \in {JSONStringify(IF data.t = "undefined" THEN Null ELSE data, Host)} })

\* the source of initScript, or the throw of JSON.stringify(data ?? null)
InitScriptSource(data) ==
  Only({ IF dataJson.k = "throw" THEN dataJson
         ELSE Text(InitPrefix
                     \o (IF dataJson.k = "undefined" THEN Chars("undefined")
                         ELSE Quote(dataJson.s))
                     \o InitSuffix) :
         dataJson \in {JSONStringify(IF data.t = "undefined" THEN Null ELSE data, Host)} })

\* initScript.runInContext(context): the argument text is read back as a string
\* literal (or as the identifier undefined), converted to a string and parsed by
\* the context's own JSON.parse; the result is bound to $ on the context
RunInitScript(source, realm, ctx) ==
  Only({ Only({ IF parsed.k = "throw" THEN parsed
                ELSE Value([realm EXCEPT !.sandbox = EnvSet(realm.sandbox, Chars("$"), parsed.v)]) :
                parsed \in {JSONParse(IF lit.ok /\ lit.next = Len(arg) + 1 THEN lit.v.s ELSE arg,
                                      ctx)} }) :
         arg \in {SubSeq(source, Len(InitPrefix) + 1, Len(source) - Len(InitSuffix))},
         lit \in {ReadString(SubSeq(source, Len(InitPrefix) + 1, Len(source) - Len(InitSuffix)), 1)} })

(***************************************************************************)
(* extractVariableNames                                                    *)
(***************************************************************************)
Blank == {" ", "\t", "\n"}

IdentChars == WordChars \cup {"$"}

IdentStart == IdentChars \ Digits

DeclKeywords == <<Chars("var"), Chars("let"), Chars("const")>>

RECURSIVE SkipWhile(_, _, _)
\* the first index from i on whose character is not in set
SkipWhile(text, i, set) ==
  IF i <= Len(text) /\ text[i] \in set THEN SkipWhile(text, i + 1, set) ELSE i

\* /(?:var|let|const)\s+([a-zA-Z_$][a-zA-Z0-9_$]*)/ tried at index i:
\* [ok, name, next] with next the index after the match
DeclMatchAt(text, i) ==
  IF \E k \in 1..3 : MatchesAt(text, DeclKeywords[k], i)
  THEN Only({ Only({ IF start > sp /\ start <= Len(text) /\ text[start] \in IdentStart
                     THEN Only({ [ok |-> TRUE, name |-> SubSeq(text, start, stop - 1),
                                  next |-> stop] :
                                 stop \in {SkipWhile(text, start, IdentChars)} })
                     ELSE [ok |-> FALSE] :
                     start \in {SkipWhile(text, sp, Blank)} }) :
              sp \in {i + Len(DeclKeywords[CHOOSE k \in 1..3 :
                                             MatchesAt(text, DeclKeywords[k], i)])} })
  ELSE [ok |-> FALSE]

RECURSIVE ScanDecls(_, _, _)
\* the while loop over varRegex.exec(code), from lastIndex i - 1
ScanDecls(text, i, names) ==
  IF i > Len(text) THEN names
  ELSE LET m == DeclMatchAt(text, i)
       IN  IF ~m.ok THEN ScanDecls(text, i + 1, names)
           ELSE IF MatchesAt(m.name, Chars("__"), 1)
           THEN ScanDecls(text, m.next, names)
           ELSE ScanDecls(text, m.next, Append(names, m.name))

RECURSIVE Dedupe(_)
\* [...new Set(names)]: the first occurrence of each name, in order
Dedupe(names) ==
  IF Len(names) = 0 THEN names
  ELSE Only({ IF \E i \in 1..Len(init) : init[i] = names[Len(names)] THEN init
              ELSE Append(init, names[Len(names)]) :
              init \in {Dedupe(SubSeq(names, 1, Len(names) - 1))} })

extractVariableNames(code) == Dedupe(ScanDecls(code.text, 1, <<>>))

(***************************************************************************)
(* executeValueMode / executeTemplateMode: the wrapped script              *)
(***************************************************************************)
\* words the compiler does not take as an identifier
ReservedWords ==
  { Chars("if"), Chars("else"), Chars("for"), Chars("while"), Chars("do"), Chars("return"),
    Chars("function"), Chars("var"), Chars("const"), Chars("new"), Chars("typeof"),
    Chars("this"), Chars("null"), Chars("true"), Chars("false"), Chars("in"),
    Chars("throw"), Chars("try"), Chars("catch"), Chars("switch"), Chars("case") }

SyntaxError == Err(Host, Chars("SyntaxError"), Chars("Unexpected token"))

TimeoutError ==
  Err(Host, Chars("Error"),
      Chars("Script execution timed out after ") \o Decimal(TIMEOUT_MS) \o Chars("ms"))

RECURSIVE Collect(_, _, _)
\* if (typeof v !== 'undefined') __vars['v'] = v;   for each name v
Collect(names, st, ctx) ==
  IF Len(names) = 0 \/ st.out.k # "none" THEN st
  ELSE Only({ Collect(Tail(names), next, ctx) : next \in {
         Only({ IF TypeofValue(val) = Chars("undefined") THEN st
                ELSE IF acc.t \in {"undefined", "null"}
                THEN [st EXCEPT !.out = Thrown(Err(ctx, Chars("TypeError"),
                                                   Chars("Cannot set properties of ")
                                                     \o TypeofValue(acc)))]
                ELSE IF acc.t = "object"
                THEN [st EXCEPT !.locals =
                        EnvSet(st.locals, Chars("__vars"),
                               Obj(acc.realm, EnvSet(acc.props, names[1], val)))]
                ELSE st :
                val \in {IF EnvHas(st.locals, names[1]) THEN EnvGet(st.locals, names[1])
                         ELSE GlobalGet(st, ctx, names[1])},
                acc \in {EnvGet(st.locals, Chars("__vars"))} }) } })

\* new vm.Script(wrappedCode) throws
CompileFails(prog, code, mode) ==
  \/ HasGarbage(prog)
  \/ mode = "template"
       /\ \E names \in {extractVariableNames(code)} :
            \E i \in 1..Len(names) : names[i] \in ReservedWords

\* script.runInContext(context) without its timeout: the run state at the end of
\* the wrapper function (out is "return" with the function's result, "throw", or
\* "loop" when the function never ends)
RunWrapped(prog, code, mode, realm, ctx) ==
  Only({ IF mode = "value"
         THEN IF body.out.k = "none" THEN [body EXCEPT !.out = Returned(Undefined)] ELSE body
         ELSE Only({ IF done.out.k = "none"
                     THEN [done EXCEPT !.out = Returned(EnvGet(done.locals, Chars("__vars")))]
                     ELSE done :
                     done \in {Collect(extractVariableNames(code), body, ctx)} }) :
         body \in {Exec(prog,
                        [locals   |-> IF mode = "template"
                                      THEN <<[k |-> Chars("__vars"), v |-> Obj(ctx, <<>>)]>>
                                      ELSE <<>>,
                         sandbox  |-> realm.sandbox,
                         builtins |-> realm.builtins,
                         random   |-> realm.random,
                         out      |-> Completed("none")],
                        ctx, Builtin(ctx, Chars("globalThis")))} })

(***************************************************************************)
(* The state of the service and of its callers.                            *)
(*   calls   : one record per caller: the execute() invocation it has in   *)
(*             flight or has last finished                                 *)
(*   realms  : every vm context created so far, indexed by context id      *)
(*   started : the number of execute() invocations so far                  *)
(* The service object itself holds only read-only configuration.           *)
(***************************************************************************)
VARIABLES calls, realms, started

\* the state of execute() and its callers
execVars == <<calls, realms, started>>

(***************************************************************************)
(* The state of PinAuthService and of what it reads                        *)
(*   sessions        : the Map of the service, as the set of its entries   *)
(*                     [token, createdAt]                                  *)
(*   cleanupInterval : "null", or "timer" while the interval is set        *)
(*   now             : what Date.now() gives, in seconds                   *)
(*   storedPin       : what configService.get('admin.pin') gives           *)
(*   issued          : every [token, createdAt] generateSessionToken made  *)
(*   revoked         : the tokens passed to invalidateSession so far       *)
(*   refused         : the tokens validateSession has answered false for   *)
(*   answer          : what the latest step returned to its caller         *)
(*   ticks           : how often the clock has been moved                  *)
(*   uncleaned       : the Map of a service given the same calls, whose    *)
(*                     cleanupExpiredSessions never ran                    *)
(***************************************************************************)
VARIABLES sessions, cleanupInterval, now, storedPin, issued, revoked, refused, answer, ticks,
          uncleaned

authVars ==
  <<sessions, cleanupInterval, now, storedPin, issued, revoked, refused, answer, ticks,
    uncleaned>>

(***************************************************************************)
(* The state of the URL safety utility, of HttpExceptionFilter and of      *)
(* SettingsController                                                      *)
(*   check       : the validateUrlSafety call in flight or last finished   *)
(*   lookup      : the lookup call of a safe agent, likewise               *)
(*   reply       : what the latest HttpExceptionFilter.catch sent and      *)
(*                 logged                                                  *)
(*   allowedKeys : Object.values(SETTING_KEYS)                             *)
(*   stored      : the settings behind SettingsService                     *)
(*   served      : what the latest controller call did                     *)
(***************************************************************************)
VARIABLES check, lookup, reply, allowedKeys, stored, served

webVars == <<check, lookup, reply, allowedKeys, stored, served>>

vars == <<calls, realms, started, authVars, webVars>>

\* the most invocations of execute() in one behaviour
MaxCalls == 2

\* the most callers with an invocation in flight at once (ConcurrentSpec)
MaxConcurrent == 2

NoResult == [pending |-> TRUE]

IdleCall ==
  [pc |-> "idle", done |-> 0, serial |-> 0,
   prog |-> <<>>, code |-> [text |-> <<>>, tail |-> 0], data |-> Undefined, mode |-> "value",
   ctx |-> 0, error |-> NoValue, result |-> NoResult,
   built |-> 0, injected |-> 0, compiled |-> 0, ran |-> 0,
   untimed |-> FALSE, logged |-> FALSE]

\* execute() has returned to its caller, or has thrown to it
Returned_pcs == {"Succeeded", "Failed"}

Ended == {"Succeeded", "Failed", "Escaped", "Hung"}

\* the try block with the context built before the script is validated
BuildBeforeValidate == <<"build", "validate", "inject", "run">>

\* the statements of execute()'s try block, in program order
ExecuteOrder == <<"validate", "build", "inject", "run">>

NextStep(call) == IF call.pc = "try" THEN ExecuteOrder[call.done + 1] ELSE "none"

\* a failure result that also carries a value
FailureWithValue(message) == [success |-> FALSE, error |-> message, value |-> Undefined]

Failure(message) == [success |-> FALSE, error |-> message]

\* a success whose undefined value is turned into null
ValueSuccessOrNull(v) == [success |-> TRUE, value |-> IF v.t = "undefined" THEN Null ELSE v]

ValueSuccess(v) == [success |-> TRUE, value |-> v]

TemplateSuccess(v) == [success |-> TRUE, variables |-> v]

(***************************************************************************)
(* execute(code, data, mode), step by step                                 *)
(***************************************************************************)
\* a caller invokes execute(): line 44
Invoke(c, input) ==
  /\ calls[c].pc \in {"idle", "Succeeded", "Failed", "Escaped"}
  /\ started < MaxCalls
  /\ started' = started + 1
  /\ calls' = [calls EXCEPT ![c] =
       [IdleCall EXCEPT !.pc = "try", !.serial = started + 1,
                        !.prog = input.prog,
                        !.code = [text |-> ProgText(input.prog), tail |-> input.tail],
                        !.data = input.data, !.mode = input.mode]]
  /\ UNCHANGED <<realms, authVars, webVars>>

\* this.validateScript(code): line 51
Validate(c) ==
  /\ NextStep(calls[c]) = "validate"
  /\ \E v \in {validateScript(calls[c].code)} :
       calls' = [calls EXCEPT ![c] =
         IF v.ok THEN [@ EXCEPT !.done = @ + 1]
         ELSE [@ EXCEPT !.pc = "executeCatch",
                        !.error = Err(Host, Chars("Error"), v.message)]]
  /\ UNCHANGED <<realms, started, authVars, webVars>>

\* one pooled context, used again by every invocation after the first
PooledContext(store) == IF Len(store) = 0 THEN 1 ELSE Len(store)

\* the context this invocation works in: a new one, with the next context id
AllocateContext(store) == Len(store) + 1

\* Object.create(null), vm.createContext and the nine assignments: lines 57-69
BuildRealm(c) ==
  /\ NextStep(calls[c]) = "build"
  /\ \E id \in {AllocateContext(realms)} :
       /\ realms' = IF id = Len(realms) + 1
                    THEN Append(realms, ScrubContext(NewContext))
                    ELSE [realms EXCEPT ![id] = ScrubContext(@)]
       /\ calls' = [calls EXCEPT ![c] =
            [@ EXCEPT !.done = @ + 1, !.ctx = id, !.built = @ + 1]]
  /\ UNCHANGED <<started, authVars, webVars>>

\* the caller's data bound to $ as it is, with no JSON round trip
BindHostData(data, realm, ctx) ==
  Value([realm EXCEPT !.sandbox = EnvSet(realm.sandbox, Chars("$"), data)])

\* what lines 75-79 do to the context: Value(realm) or Thrown(error)
InjectOutcome(data, realm, ctx) ==
  Only({ IF source.k = "throw" THEN source ELSE RunInitScript(source.s, realm, ctx) :
         source \in {InitScriptSource(data)} })

\* JSON.stringify, new vm.Script and initScript.runInContext: lines 75-79
InjectData(c) ==
  /\ NextStep(calls[c]) = "inject"
  /\ \E r \in {InjectOutcome(calls[c].data, realms[calls[c].ctx], calls[c].ctx)} :
       IF r.k = "throw"
       THEN /\ calls' = [calls EXCEPT ![c] =
                 [@ EXCEPT !.pc = "executeCatch", !.error = r.v]]
            /\ UNCHANGED realms
       ELSE /\ calls' = [calls EXCEPT ![c] =
                 [@ EXCEPT !.done = @ + 1, !.injected = @ + 1]]
            /\ realms' = [realms EXCEPT ![calls[c].ctx] = r.v]
  /\ UNCHANGED <<started, authVars, webVars>>

\* the mode dispatch and new vm.Script(wrappedCode): lines 81-85, 118-121, 135-152
StartRun(c) ==
  /\ NextStep(calls[c]) = "run"
  /\ calls' = [calls EXCEPT ![c] =
       IF CompileFails(calls[c].prog, calls[c].code, calls[c].mode)
       THEN [@ EXCEPT !.pc = "modeCatch", !.error = SyntaxError]
       ELSE [@ EXCEPT !.pc = "Executing", !.compiled = @ + 1, !.ran = @ + 1]]
  /\ UNCHANGED <<realms, started, authVars, webVars>>

\* what Math.random() may give a run: the random source is seeded afresh in
\* every context, so no two runs need draw the same number
RandomDraws == {1, 2}

\* the run of a call's wrapped script, Math.random() giving it `draw`
Outcome(call, draw) ==
  RunWrapped(call.prog, call.code, call.mode,
             [realms[call.ctx] EXCEPT !.random = draw], call.ctx)

\* script.runInContext returns or throws what the script threw: lines 122-123, 153-156
FinishRun(c) ==
  /\ calls[c].pc = "Executing"
  /\ \E draw \in RandomDraws : \E run \in {Outcome(calls[c], draw)} :
       /\ run.out.k # "loop"
       /\ realms' = [realms EXCEPT ![calls[c].ctx] = [@ EXCEPT !.sandbox = run.sandbox]]
       /\ calls' = [calls EXCEPT ![c] =
            IF run.out.k = "throw"
            THEN [@ EXCEPT !.pc = "modeCatch", !.error = run.out.v]
            ELSE [@ EXCEPT !.pc = "Succeeded",
                           !.result = IF calls[c].mode = "value"
                                      THEN ValueSuccess(run.out.v)
                                      ELSE TemplateSuccess(run.out.v)]]
  /\ UNCHANGED <<started, authVars, webVars>>

\* the { timeout: TIMEOUT_MS } of runInContext ends a script that is still running
Timeout(c) ==
  /\ calls[c].pc = "Executing"
  /\ \E draw \in RandomDraws : \E run \in {Outcome(calls[c], draw)} :
       /\ run.out.k = "loop"
       /\ realms' = [realms EXCEPT ![calls[c].ctx] = [@ EXCEPT !.sandbox = run.sandbox]]
       /\ calls' = [calls EXCEPT ![c] = [@ EXCEPT !.pc = "modeCatch", !.error = TimeoutError]]
  /\ UNCHANGED <<started, authVars, webVars>>

\* the catch of executeValueMode / executeTemplateMode: lines 124-127, 157-160
ModeCatch(c) ==
  /\ calls[c].pc = "modeCatch"
  /\ \E m \in {ErrorMessage(calls[c].error, realms)},
        u \in {calls[c].untimed \/ RunsUserCode(calls[c].error)} :
       calls' = [calls EXCEPT ![c] =
         CASE m.k = "text"  -> [@ EXCEPT !.pc = "Failed", !.result = Failure(m.s),
                                         !.untimed = u]
           [] m.k = "throw" -> [@ EXCEPT !.pc = "executeCatch", !.error = m.v, !.untimed = u]
           [] m.k = "loop"  -> [@ EXCEPT !.pc = "Hung", !.untimed = u]]
  /\ UNCHANGED <<realms, started, authVars, webVars>>

\* the catch of execute(): lines 86-90
ExecuteCatch(c) ==
  /\ calls[c].pc = "executeCatch"
  /\ \E m \in {ErrorMessage(calls[c].error, realms)},
        u \in {calls[c].untimed \/ RunsUserCode(calls[c].error)} :
       calls' = [calls EXCEPT ![c] =
         CASE m.k = "text"  -> [@ EXCEPT !.pc = "Failed", !.result = Failure(m.s),
                                         !.logged = TRUE, !.untimed = u]
           [] m.k = "throw" -> [@ EXCEPT !.pc = "Escaped", !.error = m.v, !.untimed = u]
           [] m.k = "loop"  -> [@ EXCEPT !.pc = "Hung", !.untimed = u]]
  /\ UNCHANGED <<realms, started, authVars, webVars>>

(***************************************************************************)
(* The inputs                                                              *)
(***************************************************************************)
Modes == {"value", "template"}

\* the denylisted tokens
Tokens ==
  << "constructor", "__proto__", "prototype", "Function", "eval", "import", "globalThis",
     "process", "require", "Proxy", "Reflect", "Symbol", "WeakRef", "FinalizationRegistry" >>

ToStringObject(body) == EObj(<<[k |-> Chars("toString"), v |-> EFn(body)]>>)

PriceData == Obj(Host, <<[k |-> Chars("price"), v |-> Num(35)]>>)

NestedData ==
  Obj(Host, <<[k |-> Chars("name"), v |-> Str(Chars("a\"b\\c"))],
              [k |-> Chars("rates"), v |-> Obj(Host, <<[k |-> Chars("mid"), v |-> Num(4)]>>)],
              [k |-> Chars("skip"), v |-> Undefined]>>)

\* data in which every value has a JSON form
JSONData ==
  Obj(Host, <<[k |-> Chars("name"), v |-> Str(Chars("a\"b\\c"))],
              [k |-> Chars("rates"), v |-> Obj(Host, <<[k |-> Chars("mid"), v |-> Num(-4)]>>)],
              [k |-> Chars("on"), v |-> Bool(TRUE)],
              [k |-> Chars("none"), v |-> Null]>>)

\* data that looks like code: a denylisted token as a key and as a string, the
\* text of a loop, and text that would end the string literal of initScript
TokenKeyData == Obj(Host, <<[k |-> Chars("eval"), v |-> Str(Chars("require"))]>>)

CodeTextData == { Str(Chars("while(true) {}")), Str(Chars("\"); g = 1; (\"")) }

\* data whose JSON text is longer than MAX_SCRIPT_LENGTH
LargeData == Str([i \in 1..(MAX_SCRIPT_LENGTH + 1) |-> "x"])

DataValues ==
  { Undefined, Null, Num(7), Str(Chars("process")), PriceData, NestedData,
    Fn(Host, SWhile), BigInt, Cyclic, Obj(Host, <<[k |-> Chars("big"), v |-> BigInt]>>),
    JSONData, Bool(FALSE), Str(Chars("say \"hi\"")), TokenKeyData, LargeData }
  \cup CodeTextData

TokenProgs == { <<SReturn(EId(Tokens[i]))>> : i \in 1..Len(Tokens) }

\* a denylisted token inside a longer name
NearMissProgs ==
  { <<SReturn(ETypeof("_process"))>>, <<SReturn(ETypeof("processData"))>>,
    <<SReturn(ETypeof("$process"))>>, <<SReturn(EId("evaluate"))>>,
    <<SReturn(ETypeof("_Fn"))>>, <<SReturn(EStr("eval"))>> }

ThrowProgs ==
  { <<SThrow(EStr("boom"))>>,
    <<SThrow(EStr("timed out"))>>,
    <<SThrow(ENum(7))>>,
    <<SThrow(EObj(<<>>))>>,
    <<SThrow(ToStringObject(SWhile))>>,
    <<SThrow(ToStringObject(SThrow(EThis)))>>,
    <<SThrow(ToStringObject(SThrow(EStr("inner"))))>>,
    <<SThrow(ToStringObject(SThrow(ToStringObject(SReturn(EStr("deep"))))))>>,
    <<SThrow(ToStringObject(SReturn(EStr("custom"))))>>,
    <<SReturn(EMember(EMember(EMember(EId("$"), "foo"), "bar"), "baz"))>>,
    <<SGarbage>> }

PlainProgs ==
  { <<>>,
    <<SReturn(ENum(42))>>,
    <<SReturn(EId("$"))>>,
    <<SReturn(EMul(EMember(EId("$"), "price"), ENum(1000)))>>,
    <<SReturn(ETypeof("Math"))>>,
    <<SReturn(EId("JSON"))>>,
    <<SReturn(ETypeof("parseInt"))>>,
    <<SReturn(EFn(SWhile))>>,
    <<SReturn(ERandom)>>,
    <<SVar("var", "a", ENum(1)), SVar("var", "b", EAdd(EId("a"), ENum(1)))>>,
    <<SVar("let", "o", EId("$")), SVar("const", "n", ENum(2))>> }

LoopProgs ==
  { <<SWhile>>, <<SAssign("g", ENum(1)), SWhile>>, <<SVar("var", "a", ENum(1)), SWhile>> }

\* scripts that write or read a global of their context
SharingProgs ==
  { <<SAssign("g", ENum(1)), SReturn(ETypeof("g"))>>,
    <<SReturn(ETypeof("g"))>>,
    <<SAssign("$", ENum(7)), SReturn(EId("$"))>>,
    <<SReturn(EId("$"))>> }

\* scripts that end the wrapper of template mode themselves, or touch its
\* accumulator
AccumulatorProgs ==
  { <<SVar("var", "a", ENum(1)), SReturn(ENum(5))>>,
    <<SVar("var", "__vars", EObj(<<[k |-> Chars("__x"), v |-> ENum(1)]>>))>>,
    <<SVar("var", "__vars", ENum(5)), SVar("var", "a", ENum(1))>>,
    <<SVar("var", "a", ENum(1)), SBlock(<<SVar("let", "b", ENum(2))>>),
      SVar("var", "a", ENum(3))>> }

\* scripts with var, let or const and a word after it inside a comment or a
\* string literal
LexicalProgs ==
  { <<SComment("var y"), SVar("var", "a", ENum(1))>>,
    <<SComment("let while"), SVar("var", "a", ENum(1))>>,
    <<SVar("var", "s", EStr("let x"))>>,
    <<SVar("var", "s", EStr("const if"))>> }

Progs == TokenProgs \cup NearMissProgs \cup ThrowProgs \cup PlainProgs \cup LoopProgs
           \cup SharingProgs \cup AccumulatorProgs \cup LexicalProgs

\* scripts run against every data value
DataProgs == { <<SReturn(EId("$"))>>, <<SReturn(ENum(42))>> }

\* the blanks that bring a script to a total length n
PadTo(prog, n) == n - Len(ProgText(prog))

Inputs ==
  { [prog |-> p, tail |-> 0, data |-> PriceData, mode |-> m] : p \in Progs, m \in Modes }
  \cup
  { [prog |-> p, tail |-> 0, data |-> d, mode |-> m] :
      p \in DataProgs, d \in DataValues, m \in Modes }
  \cup
  { [prog |-> p, tail |-> PadTo(p, n), data |-> PriceData, mode |-> m] :
      p \in { <<SReturn(ENum(42))>>, <<SReturn(EId("eval"))>>, <<SWhile>> },
      n \in { MAX_SCRIPT_LENGTH, MAX_SCRIPT_LENGTH + 1 },
      m \in Modes }

\* the writers of a global or of $, and a reader
ConcurrentProgs ==
  { <<SAssign("g", ENum(1)), SReturn(ETypeof("g"))>>,
    <<SReturn(ETypeof("g"))>>,
    <<SAssign("$", ENum(7)), SReturn(EId("$"))>> }

ConcurrentInputs ==
  { [prog |-> p, tail |-> 0, data |-> PriceData, mode |-> "value"] : p \in ConcurrentProgs }
  \cup
  { [prog |-> <<SAssign("g", ENum(1)), SWhile>>, tail |-> 0, data |-> Null, mode |-> "template"],
    [prog |-> <<SReturn(EId("process"))>>, tail |-> 0, data |-> Null, mode |-> "value"] }

(***************************************************************************)
(* Part 2: PinAuthService (backend/src/auth/pin-auth.service.ts)           *)
(*                                                                         *)
(* Time is counted in seconds: the 2592000000 milliseconds of the session  *)
(* age do not fit the integers of the model checker, and every time the    *)
(* service compares is a whole number of the clock steps below.            *)
(***************************************************************************)
SESSION_MAX_AGE_MS == 30 * 24 * 60 * 60

\* the clock is moved at most MaxTicks times
MaxTicks == 3

\* by a second, or by the whole session age
ClockSteps == { 1, SESSION_MAX_AGE_MS }

\* at most MaxTokens different token strings occur
MaxTokens == 2

\* the n-th different string randomBytes(32).toString('hex') gives or a client presents
SessionTokens == 1..MaxTokens

NoAnswer == [op |-> "none"]

\* the service as constructed, before onModuleInit
PinAuthConstructed ==
  /\ sessions = {}
  /\ cleanupInterval = "null"
  /\ now = 0
  /\ issued = {}
  /\ revoked = {}
  /\ refused = {}
  /\ answer = NoAnswer
  /\ ticks = 0
  /\ uncleaned = {}

\* the configuration: admin.pin unset, or set to a string
PinUnset == [set |-> FALSE]

PinSet(pin) == [set |-> TRUE, pin |-> pin]

\* the character '\0'
NUL == "\\0"

\* String.prototype.padEnd with a one-character filler
padEnd(s, maxLen, fill) == s \o [i \in 1..(maxLen - Len(s)) |-> fill]

\* a character outside ASCII (e with acute accent)
EAcute == "\\u00e9"

\* the UTF-8 bytes of a character: two (C3 A9) for EAcute, and for an ASCII
\* character one byte, written as the character
Utf8Char(ch) == IF ch = EAcute THEN <<"C3", "A9">> ELSE <<ch>>

\* Buffer.from(string)
RECURSIVE BufferFrom(_)
BufferFrom(s) == IF s = <<>> THEN <<>> ELSE Utf8Char(Head(s)) \o BufferFrom(Tail(s))

\* crypto.timingSafeEqual: throws on buffers of different byte length
timingSafeEqual(a, b) ==
  IF Len(a) # Len(b) THEN [k |-> "throw"] ELSE [k |-> "value", v |-> a = b]

validatePin(config, pin) ==
  IF ~config.set \/ config.pin = <<>> THEN FALSE
  ELSE LET storedPinText == config.pin
           maxLen == IF Len(pin) >= Len(storedPinText) THEN Len(pin) ELSE Len(storedPinText)
           paddedPin == padEnd(pin, maxLen, NUL)
           paddedStored == padEnd(storedPinText, maxLen, NUL)
           compared == timingSafeEqual(BufferFrom(paddedPin), BufferFrom(paddedStored))
       IN  IF compared.k = "throw" THEN FALSE ELSE compared.v

\* Map.get, as the set of the entries under the key (none or one)
SessionsGet(map, token) == { s \in map : s.token = token }

\* Map.set
SessionsSet(map, token, createdAt) ==
  (map \ SessionsGet(map, token)) \cup { [token |-> token, createdAt |-> createdAt] }

\* generateSessionToken: the store after it
generateSessionToken(map, token, at) == SessionsSet(map, token, at)

\* validateSession without its expiry test
validateWithoutExpiry(map, token, at) ==
  [sessions |-> map, result |-> SessionsGet(map, token) # {}]

\* validateSession: the store after it and what it returns
validateSession(map, token, at) ==
  LET session == SessionsGet(map, token)
  IN  IF session = {} THEN [sessions |-> map, result |-> FALSE]
      ELSE IF \E s \in session : s.createdAt < at - SESSION_MAX_AGE_MS
           THEN [sessions |-> map \ session, result |-> FALSE]
           ELSE [sessions |-> map, result |-> TRUE]

\* an invalidateSession that deletes nothing
invalidateNothing(map, token) == map

\* invalidateSession: Map.delete
invalidateSession(map, token) == map \ SessionsGet(map, token)

\* a cleanup that also removes a session created exactly at the cutoff
cleanupAtCutoff(map, at) ==
  LET cutoff == at - SESSION_MAX_AGE_MS
  IN  { s \in map : ~(s.createdAt <= cutoff) }

\* cleanupExpiredSessions: the store after it
cleanupExpiredSessions(map, at) ==
  LET cutoff == at - SESSION_MAX_AGE_MS
  IN  { s \in map : ~(s.createdAt < cutoff) }

\* every token string seen so far: made by the service or presented to it
SeenTokens == { i.token : i \in issued } \cup revoked \cup refused

\* onModuleInit: the hourly interval is set
OnModuleInit ==
  /\ cleanupInterval = "null"
  /\ cleanupInterval' = "timer"
  /\ answer' = NoAnswer
  /\ UNCHANGED <<sessions, now, storedPin, issued, revoked, refused, ticks, uncleaned,
                 execVars, webVars>>

\* onModuleDestroy: the interval is cleared
OnModuleDestroy ==
  /\ cleanupInterval' = "null"
  /\ answer' = NoAnswer
  /\ UNCHANGED <<sessions, now, storedPin, issued, revoked, refused, ticks, uncleaned,
                 execVars, webVars>>

\* the callback of the interval; when within the hour it runs is left open
CleanupTimer ==
  /\ cleanupInterval = "timer"
  /\ sessions' = cleanupExpiredSessions(sessions, now)
  /\ answer' = NoAnswer
  /\ UNCHANGED <<cleanupInterval, now, storedPin, issued, revoked, refused, ticks, uncleaned,
                 execVars, webVars>>

\* a direct call of the public cleanupExpiredSessions()
CleanupExpiredSessions ==
  /\ sessions' = cleanupExpiredSessions(sessions, now)
  /\ answer' = [op |-> "cleanupExpiredSessions"]
  /\ UNCHANGED <<cleanupInterval, now, storedPin, issued, revoked, refused, ticks, uncleaned,
                 execVars, webVars>>

ValidatePin(pin) ==
  /\ answer' = [op |-> "validatePin", pin |-> pin, result |-> validatePin(storedPin, pin)]
  /\ UNCHANGED <<sessions, cleanupInterval, now, storedPin, issued, revoked, refused, ticks,
                 uncleaned, execVars, webVars>>

\* randomBytes(32) gives a string that was never made or presented before
GenerateSessionToken(token) ==
  /\ token \notin SeenTokens
  /\ sessions' = generateSessionToken(sessions, token, now)
  /\ uncleaned' = generateSessionToken(uncleaned, token, now)
  /\ issued' = issued \cup { [token |-> token, createdAt |-> now] }
  /\ answer' = [op |-> "generateSessionToken", token |-> token]
  /\ UNCHANGED <<cleanupInterval, now, storedPin, revoked, refused, ticks, execVars, webVars>>

ValidateSession(token) ==
  \E r \in { validateSession(sessions, token, now) } :
    /\ sessions' = r.sessions
    /\ uncleaned' = validateSession(uncleaned, token, now).sessions
    /\ refused' = IF r.result THEN refused ELSE refused \cup { token }
    /\ answer' = [op |-> "validateSession", token |-> token, result |-> r.result]
    /\ UNCHANGED <<cleanupInterval, now, storedPin, issued, revoked, ticks, execVars, webVars>>

InvalidateSession(token) ==
  /\ sessions' = invalidateSession(sessions, token)
  /\ uncleaned' = invalidateSession(uncleaned, token)
  /\ revoked' = revoked \cup { token }
  /\ answer' = [op |-> "invalidateSession", token |-> token]
  /\ UNCHANGED <<cleanupInterval, now, storedPin, issued, refused, ticks, execVars, webVars>>

\* time passes
Tick(step) ==
  /\ ticks < MaxTicks
  /\ ticks' = ticks + 1
  /\ now' = now + step
  /\ answer' = NoAnswer
  /\ UNCHANGED <<sessions, cleanupInterval, storedPin, issued, revoked, refused, uncleaned,
                 execVars, webVars>>

\* a submitted PIN has at most MaxPinLength characters
MaxPinLength == 3

\* the strings of at most n characters of S
StringsUpTo(S, n) == UNION { [1..k -> S] : k \in 0..n }

\* the configured PINs: unset, empty, digits, or a character outside ASCII
StoredPins ==
  { PinUnset, PinSet(<<EAcute>>) } \cup { PinSet(s) : s \in StringsUpTo({"1", "2"}, 2) }

\* the PINs submitted
SubmittedPins == StringsUpTo({"1", "2", NUL, EAcute}, MaxPinLength)

(***************************************************************************)
(* Part 3: the URL safety utility (isPrivateIp, validateUrlSafety and the  *)
(* safe agents)                                                            *)
(***************************************************************************)
BLOCKED_HOSTNAMES ==
  { Chars("localhost"), Chars("inker-backend"), Chars("inker-frontend"),
    Chars("inker-postgres"), Chars("inker-redis"), Chars("host.docker.internal"),
    Chars("metadata.google.internal") }

\* the first index of character ch in s, or 0 when s has none
IndexOf(s, ch) ==
  IF \E i \in 1..Len(s) : s[i] = ch
  THEN CHOOSE i \in 1..Len(s) : s[i] = ch /\ \A j \in 1..(i - 1) : s[j] # ch
  ELSE 0

RECURSIVE Split(_, _)
\* String.prototype.split with a one-character separator
Split(s, ch) ==
  LET i == IndexOf(s, ch)
  IN  IF i = 0 THEN <<s>>
      ELSE <<SubSeq(s, 1, i - 1)>> \o Split(SubSeq(s, i + 1, Len(s)), ch)

\* String.prototype.toLowerCase, on ASCII
ToLowerCase(s) ==
  LET upper == Chars("ABCDEFGHIJKLMNOPQRSTUVWXYZ")
      lower == Chars("abcdefghijklmnopqrstuvwxyz")
  IN  [i \in 1..Len(s) |->
        IF \E k \in 1..26 : upper[k] = s[i]
        THEN lower[CHOOSE k \in 1..26 : upper[k] = s[i]]
        ELSE s[i]]

\* Number(text) for a piece between two dots: the empty string is 0, decimal
\* digits are their number, any other text met here is NaN
NumberOf(text) ==
  IF text = <<>> THEN [nan |-> FALSE, n |-> 0]
  ELSE IF \A i \in 1..Len(text) : text[i] \in Digits
       THEN [nan |-> FALSE, n |-> ReadDigits(text, 1, 0).n]
       ELSE [nan |-> TRUE]

\* \d+\.\d+\.\d+\.\d+
IsDottedQuad(text) ==
  LET parts == Split(text, ".")
  IN  /\ Len(parts) = 4
      /\ \A i \in 1..4 : parts[i] # <<>> /\ \A k \in 1..Len(parts[i]) : parts[i][k] \in Digits

\* the group of /^::ffff:(\d+\.\d+\.\d+\.\d+)$/i, or the empty text without a match
Ipv4Mapped(ip) ==
  IF /\ Len(ip) > 7
     /\ ToLowerCase(SubSeq(ip, 1, 7)) = Chars("::ffff:")
     /\ IsDottedQuad(SubSeq(ip, 8, Len(ip)))
  THEN SubSeq(ip, 8, Len(ip))
  ELSE <<>>

\* the IPv4 ranges of isPrivateIp, on the first two numbers of an address
PrivateRange(a, b) ==
  \/ a = 127
  \/ a = 10
  \/ a = 172 /\ b >= 16 /\ b <= 31
  \/ a = 192 /\ b = 168
  \/ a = 169 /\ b = 254
  \/ a = 0

RECURSIVE isPrivateIp(_)
isPrivateIp(ip) ==
  IF Ipv4Mapped(ip) # <<>> THEN isPrivateIp(Ipv4Mapped(ip))
  ELSE LET pieces == Split(ip, ".")
           parts == [i \in 1..Len(pieces) |-> NumberOf(pieces[i])]
           normalized == ToLowerCase(ip)
       IN  IF Len(parts) = 4 /\ \A i \in 1..4 : ~parts[i].nan
           THEN PrivateRange(parts[1].n, parts[2].n)
           ELSE \/ normalized \in { Chars("::1"), Chars("0:0:0:0:0:0:0:1") }
                \/ Len(normalized) >= 2 /\ normalized[1] = "f" /\ normalized[2] \in {"c", "d"}
                \/ /\ Len(normalized) >= 3
                   /\ normalized[1] = "f" /\ normalized[2] = "e"
                   /\ normalized[3] \in {"8", "9", "a", "b"}

\* the text of s before the first character of set, all of s when it has none
Before(s, set) ==
  IF \E i \in 1..Len(s) : s[i] \in set
  THEN SubSeq(s, 1, (CHOOSE i \in 1..Len(s) :
                       s[i] \in set /\ \A j \in 1..(i - 1) : s[j] \notin set) - 1)
  ELSE s

\* new URL(url), for the URLs of the model: scheme://host[:port][/path], the
\* host a name, a dotted IPv4 address or a bracketed IPv6 address in the form
\* the parser serializes it in.  The parser lower-cases scheme and host,
\* leaves the brackets of an IPv6 host in hostname and takes the port off.
\* A text with no scheme, or an http(s) URL with no host, does not parse.
ParseURL(url) ==
  LET colon == IndexOf(url, ":")
  IN  IF colon <= 1 \/ \E i \in 1..(colon - 1) : url[i] \notin (WordChars \ Digits) \ {"_"}
      THEN [ok |-> FALSE]
      ELSE LET rest == SubSeq(url, colon + 1, Len(url))
               authority == IF MatchesAt(rest, Chars("//"), 1)
                            THEN Before(SubSeq(rest, 3, Len(rest)), {"/", "?", "#"})
                            ELSE <<>>
               host == IF authority # <<>> /\ authority[1] = "["
                       THEN Before(authority, {"]"}) \o Chars("]")
                       ELSE Before(authority, {":"})
           IN  IF /\ ToLowerCase(SubSeq(url, 1, colon)) \in { Chars("http:"), Chars("https:") }
                  /\ host = <<>>
               THEN [ok |-> FALSE]
               ELSE [ok |-> TRUE,
                     protocol |-> ToLowerCase(SubSeq(url, 1, colon)),
                     hostname |-> ToLowerCase(host)]

IdleCheck == [pc |-> "idle"]

\* the checks of validateUrlSafety before it asks the DNS: the error thrown,
\* or the hostname to resolve
BeforeResolving(url) ==
  LET parsed == ParseURL(url)
  IN  IF ~parsed.ok
      THEN [pc |-> "threw", url |-> url, error |-> Chars("Invalid URL format")]
      ELSE IF parsed.protocol \notin { Chars("http:"), Chars("https:") }
      THEN [pc |-> "threw", url |-> url, error |-> Chars("Only HTTP and HTTPS URLs are allowed")]
      ELSE IF ToLowerCase(parsed.hostname) \in BLOCKED_HOSTNAMES
      THEN [pc |-> "threw", url |-> url,
            error |-> Chars("URLs pointing to internal services are not allowed")]
      ELSE IF isPrivateIp(ToLowerCase(parsed.hostname))
      THEN [pc |-> "threw", url |-> url,
            error |-> Chars("URLs pointing to private IP addresses are not allowed")]
      ELSE [pc |-> "resolving", url |-> url, hostname |-> ToLowerCase(parsed.hostname)]

\* what dnsResolve4 / dnsResolve6 settle with: an error, or addresses
DnsError == [err |-> TRUE]

DnsAddresses(list) == [err |-> FALSE, addresses |-> list]

\* promise.catch(() => [])
CatchToEmpty(settled) == IF settled.err THEN <<>> ELSE settled.addresses

\* the try / catch around the resolved addresses: the error that leaves it,
\* or none
AfterResolving(allAddresses) ==
  IF \E i \in 1..Len(allAddresses) : isPrivateIp(allAddresses[i])
  THEN LET message == Chars("URL resolves to a private IP address")
       IN  IF \/ Contains(message, Chars("private IP"))
              \/ Contains(message, Chars("internal services"))
              \/ Contains(message, Chars("Only HTTP"))
           THEN [threw |-> TRUE, error |-> message]
           ELSE [threw |-> FALSE]
  ELSE [threw |-> FALSE]

\* validateUrlSafety(url) is called: lines 56-80
ValidateUrlSafety(url) ==
  /\ check.pc # "resolving"
  /\ check' = BeforeResolving(url)
  /\ UNCHANGED <<lookup, reply, allowedKeys, stored, served, execVars, authVars>>

\* both DNS promises have settled: lines 82-106
Resolved(answer4, answer6) ==
  /\ check.pc = "resolving"
  /\ \E all \in { CatchToEmpty(answer4) \o CatchToEmpty(answer6) } :
       \E after \in { AfterResolving(all) } :
         check' = IF after.threw
                  THEN [pc |-> "threw", url |-> check.url, error |-> after.error]
                  ELSE [pc |-> "returned", url |-> check.url, hostname |-> check.hostname,
                        resolved |-> all]
  /\ UNCHANGED <<lookup, reply, allowedKeys, stored, served, execVars, authVars>>

\* the URLs given to validateUrlSafety
Urls ==
  { Chars("http://example.com/feed?x=1"), Chars("HTTPS://Example.COM:8443/a"),
    Chars("ftp://example.com/"), Chars("file:///etc/passwd"), Chars("javascript:alert(1)"),
    Chars("not a url"), Chars("http://localhost/"), Chars("http://LocalHost:3000/api"),
    Chars("http://inker-redis:6379"), Chars("http://metadata.google.internal/computeMetadata"),
    Chars("http://127.0.0.1/"), Chars("http://10.0.0.5:8080/"), Chars("http://172.16.0.1/"),
    Chars("http://172.32.0.1/"), Chars("http://192.168.1.1/"), Chars("http://169.254.169.254/"),
    Chars("http://0.0.0.0/"), Chars("http://8.8.8.8/"),
    Chars("http://[::1]/"), Chars("http://[fd00::1]:8080/"), Chars("http://[fe80::1]/"),
    Chars("http://[::ffff:7f00:1]/"), Chars("http://[2001:db8::1]/") }

\* what the DNS may answer, whatever it is asked
Answers4 ==
  { DnsError, DnsAddresses(<<Chars("93.184.216.34")>>), DnsAddresses(<<Chars("127.0.0.1")>>),
    DnsAddresses(<<Chars("93.184.216.34"), Chars("10.0.0.1")>>),
    DnsAddresses(<<Chars("1.1.1.1")>>), DnsAddresses(<<Chars("8.8.8.8"), Chars("8.8.4.4")>>) }

Answers6 ==
  { DnsError, DnsAddresses(<<Chars("2606:2800:220:1::1")>>), DnsAddresses(<<Chars("fd00::1")>>),
    DnsAddresses(<<Chars("::ffff:192.168.0.1")>>), DnsAddresses(<<Chars("::1")>>),
    DnsAddresses(<<Chars("2001:4860:4860::8888")>>) }

\* the error a safe agent reports for a private address
PrivateAddressError(addr) ==
  [code |-> "ECONNREFUSED", message |-> Chars("DNS resolved to private IP: ") \o addr]

\* callback(err, address, family), and the address isPrivateIp was asked about
Callback(err, address, family, asked) ==
  [err |-> err, address |-> address, family |-> family, asked |-> asked]

NoError == [code |-> "null"]

\* the address isPrivateIp was asked about, when it was asked about none
NotAsked == <<"none">>

\* a resolve4 callback that checks the first address and hands on the last
HandOnLastAddress(addresses) ==
  LET addr == addresses[1]
  IN  IF isPrivateIp(addr) THEN Callback(PrivateAddressError(addr), <<>>, 4, addr)
      ELSE Callback(NoError, addresses[Len(addresses)], 4, addr)

\* the callback of dns.resolve4 when it has addresses: lines 127-135, 162-170
OnResolve4(addresses) ==
  LET addr == addresses[1]
  IN  IF isPrivateIp(addr) THEN Callback(PrivateAddressError(addr), <<>>, 4, addr)
      ELSE Callback(NoError, addr, 4, addr)

\* the callback of the dns.lookup fallback: lines 116-124, 151-159
OnLookup(lookupErr, addr, fam) ==
  IF lookupErr.code # "null" THEN Callback(lookupErr, <<>>, 4, NotAsked)
  ELSE IF isPrivateIp(addr) THEN Callback(PrivateAddressError(addr), <<>>, 4, addr)
  ELSE Callback(NoError, addr, fam, addr)

\* the lookup of a safe agent is called for a connection: lines 112-113, 147-148
Lookup(agent, hostname) ==
  /\ lookup.pc \in {"idle", "called back"}
  /\ lookup' = [pc |-> "resolve4", agent |-> agent, hostname |-> hostname]
  /\ UNCHANGED <<check, reply, allowedKeys, stored, served, execVars, authVars>>

\* dns.resolve4 fails: the fallback dns.lookup(hostname, { family: 4 }) is started
Resolve4Fails ==
  /\ lookup.pc = "resolve4"
  /\ lookup' = [lookup EXCEPT !.pc = "lookup"]
  /\ UNCHANGED <<check, reply, allowedKeys, stored, served, execVars, authVars>>

\* dns.resolve4 gives addresses
Resolve4Gives(addresses) ==
  /\ lookup.pc = "resolve4"
  /\ lookup' = [pc |-> "called back", agent |-> lookup.agent, hostname |-> lookup.hostname,
                path |-> "resolve4", given |-> addresses, callback |-> OnResolve4(addresses)]
  /\ UNCHANGED <<check, reply, allowedKeys, stored, served, execVars, authVars>>

\* dns.lookup calls back, with an error or with an address
LookupCallsBack(lookupErr, addr) ==
  /\ lookup.pc = "lookup"
  /\ lookup' = [pc |-> "called back", agent |-> lookup.agent, hostname |-> lookup.hostname,
                path |-> "lookup",
                given |-> IF lookupErr.code # "null" THEN <<>> ELSE <<addr>>,
                callback |-> OnLookup(lookupErr, IF lookupErr.code # "null" THEN <<>> ELSE addr,
                                      4)]
  /\ UNCHANGED <<check, reply, allowedKeys, stored, served, execVars, authVars>>

\* the agents, the hostnames they connect to, and what the DNS may give
Agents == { "http", "https" }

LookupHostnames ==
  { Chars("example.com"), Chars("rebind.example"), Chars("localhost"), Chars("inker-redis") }

Resolve4Lists ==
  { <<Chars("93.184.216.34")>>, <<Chars("127.0.0.1")>>, <<Chars("169.254.169.254")>>,
    <<Chars("93.184.216.34"), Chars("10.0.0.1")>>, <<Chars("192.168.0.7"), Chars("1.1.1.1")>>,
    <<Chars("172.32.0.1")>>, <<Chars("0.0.0.0")>> }

LookupErrors == { NoError, [code |-> "ENOTFOUND"] }

LookupAddresses == { Chars("93.184.216.34"), Chars("127.0.0.1"), Chars("10.2.3.4"), Chars("8.8.8.8") }

(***************************************************************************)
(* Part 4: HttpExceptionFilter (backend/src/common/filters)                *)
(*                                                                         *)
(* What is thrown is an HttpException with its response (a string or an    *)
(* object) and status, an Error, or any other value.  A response body is   *)
(* an object: a sequence of keys with their values.                        *)
(***************************************************************************)
HttpException(response, status) == [kind |-> "http", response |-> response, status |-> status]

ErrorObject(message) == [kind |-> "error", message |-> message]

ThrownValue(v) == [kind |-> "value", value |-> v]

\* exception instanceof HttpException ? exception.getStatus() : INTERNAL_SERVER_ERROR
StatusOf(exception) == IF exception.kind = "http" THEN exception.status ELSE 500

\* exception instanceof HttpException ? exception.getResponse() : 'Internal server error'
MessageOf(exception) ==
  IF exception.kind = "http" THEN exception.response ELSE Str(Chars("Internal server error"))

sanitizeUrl(url) ==
  LET qIndex == IndexOf(url, "?")
  IN  IF qIndex >= 1 THEN SubSeq(url, 1, qIndex - 1) ELSE url

RECURSIVE SpreadInto(_, _)
\* { ...props, ...more }: a key of more replaces the value of the same key
SpreadInto(props, more) ==
  IF more = <<>> THEN props
  ELSE SpreadInto(EnvSet(props, more[1].k, more[1].v), Tail(more))

\* new Date().toISOString()
Timestamp == Str(Chars("1970-01-01T00:00:00.000Z"))

\* errorResponse: lines 32-39
ErrorResponse(exception, request) ==
  LET message == MessageOf(exception)
  IN  Obj(Host,
          SpreadInto(
            << [k |-> Chars("statusCode"), v |-> Num(StatusOf(exception))],
               [k |-> Chars("timestamp"), v |-> Timestamp],
               [k |-> Chars("path"), v |-> Str(sanitizeUrl(request.url))],
               [k |-> Chars("method"), v |-> Str(request.method)],
               [k |-> Chars("message"),
                v |-> IF message.t = "string" THEN message
                      ELSE GetProp(message, Chars("message"))] >>,
            IF message.t = "object" THEN message.props ELSE <<>>))

\* the line given to logger.error or logger.warn: lines 42-51
LogLine(exception, request) ==
  IF StatusOf(exception) >= 500
  THEN [level |-> "error",
        line |-> request.method \o Chars(" ") \o sanitizeUrl(request.url)]
  ELSE [level |-> "warn",
        line |-> request.method \o Chars(" ") \o sanitizeUrl(request.url) \o Chars(" - ")
                   \o JSONStringify(ErrorResponse(exception, request), Host).s]

\* catch(exception, host): lines 15-54
Catch(exception, request) ==
  /\ reply' = [sent |-> TRUE, exception |-> exception, request |-> request,
               status |-> StatusOf(exception),
               body |-> ErrorResponse(exception, request),
               log |-> LogLine(exception, request)]
  /\ UNCHANGED <<check, lookup, allowedKeys, stored, served, execVars, authVars>>

\* the response of a standard exception of the framework
StandardResponse(status, error, message) ==
  Obj(Host, << [k |-> Chars("message"), v |-> Str(Chars(message))],
               [k |-> Chars("error"), v |-> Str(Chars(error))],
               [k |-> Chars("statusCode"), v |-> Num(status)] >>)

Exceptions ==
  { HttpException(Str(Chars("Forbidden")), 403),
    HttpException(StandardResponse(400, "Bad Request", "Invalid setting key: x"), 400),
    HttpException(StandardResponse(404, "Not Found", "Cannot GET /api/x"), 404),
    HttpException(StandardResponse(503, "Service Unavailable", "down"), 503),
    HttpException(Obj(Host, << [k |-> Chars("errors"), v |-> Str(Chars("value too long"))] >>), 422),
    HttpException(Obj(Host, << [k |-> Chars("message"), v |-> Str(Chars("bad link"))],
                               [k |-> Chars("path"), v |-> Str(Chars("/api/x?token=abc"))] >>),
                  400),
    ErrorObject(Chars("connect ECONNREFUSED 10.0.0.5:5432")),
    ThrownValue(Str(Chars("boom"))),
    ThrownValue(Obj(Host, << [k |-> Chars("secret"), v |-> Num(7)] >>)) }

Requests ==
  { [method |-> Chars(method), url |-> Chars(url)] :
      method \in { "GET", "PUT", "DELETE" },
      url \in { "/api/screens", "/api/screens?token=abc", "/api/x?token=abc&next=/y?z",
                "/?", "/api/devices/7?" } }

(***************************************************************************)
(* Part 5: SettingsController (backend/src/settings)                       *)
(*                                                                         *)
(* SettingsService is a store of one value per key; the controller checks  *)
(* the key of the route against Object.values(SETTING_KEYS) before it      *)
(* calls the service.                                                      *)
(***************************************************************************)
\* SettingsService.set(key, value)
SettingsSet(settings, key, value) ==
  { r \in settings : r.key # key } \cup { [key |-> key, value |-> value] }

\* SettingsService.delete(key)
SettingsDelete(settings, key) == { r \in settings : r.key # key }

\* a variant of the check that compares the keys without their case
includesIgnoringCase(list, key) ==
  \E i \in 1..Len(list) : ToLowerCase(list[i]) = ToLowerCase(key)

\* allowedKeys.includes(key)
includes(list, key) == \E i \in 1..Len(list) : list[i] = key

RECURSIVE Join(_, _)
\* list.join(separator)
Join(list, separator) ==
  IF list = <<>> THEN <<>>
  ELSE IF Len(list) = 1 THEN list[1]
  ELSE list[1] \o separator \o Join(Tail(list), separator)

BadRequestException(key, keys) ==
  [kind |-> "threw", name |-> "BadRequestException",
   message |-> Chars("Invalid setting key: ") \o key \o Chars(". Allowed keys: ")
                 \o Join(keys, Chars(", "))]

Success == [kind |-> "returned", success |-> TRUE]

NoCall == [name |-> "none"]

\* PUT :key, update(key, body): lines 34-44
Update(key, value) ==
  /\ IF ~includes(allowedKeys, key)
     THEN /\ served' = [op |-> "update", key |-> key, called |-> NoCall,
                        outcome |-> BadRequestException(key, allowedKeys)]
          /\ stored' = stored
     ELSE /\ stored' = SettingsSet(stored, key, value)
          /\ served' = [op |-> "update", key |-> key,
                        called |-> [name |-> "set", key |-> key, value |-> value],
                        outcome |-> Success]
  /\ UNCHANGED <<check, lookup, reply, allowedKeys, execVars, authVars>>

\* DELETE :key, delete(key): lines 49-58
Delete(key) ==
  /\ IF ~includes(allowedKeys, key)
     THEN /\ served' = [op |-> "delete", key |-> key, called |-> NoCall,
                        outcome |-> BadRequestException(key, allowedKeys)]
          /\ stored' = stored
     ELSE /\ stored' = SettingsDelete(stored, key)
          /\ served' = [op |-> "delete", key |-> key,
                        called |-> [name |-> "delete", key |-> key],
                        outcome |-> Success]
  /\ UNCHANGED <<check, lookup, reply, allowedKeys, execVars, authVars>>

\* Object.values(SETTING_KEYS), for two shapes of SETTING_KEYS
KeyLists ==
  { << Chars("timezone") >>, << Chars("timezone"), Chars("github_token") >> }

\* the :key of a route
RouteKeys ==
  { Chars(key) : key \in { "timezone", "github_token", "Timezone", "time", "timezone ",
                           "__proto__", "" } }

\* body.value
BodyValues == { Chars("on"), Chars("off") }

\* no lookup of an agent, no reply of the filter, no controller call yet
IdleLookup == [pc |-> "idle"]

NoReply == [sent |-> FALSE]

WebIdle ==
  /\ check = IdleCheck
  /\ lookup = IdleLookup
  /\ reply = NoReply
  /\ allowedKeys = <<>>
  /\ stored = {}
  /\ served = NoAnswer

(***************************************************************************)
(* Spec: one caller.  execute() is synchronous, so on one thread each      *)
(* invocation runs to its end before the next begins.                      *)
(***************************************************************************)
Call(c) == \E input \in Inputs : Invoke(c, input)

Init ==
  /\ calls = [c \in {1} |-> IdleCall]
  /\ realms = <<>>
  /\ started = 0
  /\ PinAuthConstructed
  /\ WebIdle
  /\ storedPin = PinUnset

Next ==
  \/ Call(1)
  \/ Validate(1)
  \/ BuildRealm(1)
  \/ InjectData(1)
  \/ StartRun(1)
  \/ FinishRun(1)
  \/ Timeout(1)
  \/ ModeCatch(1)
  \/ ExecuteCatch(1)

Spec == Init /\ [][Next]_vars

(***************************************************************************)
(* ConcurrentSpec: several callers whose invocations interleave step by    *)
(* step (more than one thread allows: every order of the steps).           *)
(***************************************************************************)
Callers == 1..MaxConcurrent

ConcurrentCall(c) == \E input \in ConcurrentInputs : Invoke(c, input)

ConcurrentInit ==
  /\ calls = [c \in Callers |-> IdleCall]
  /\ realms = <<>>
  /\ started = 0
  /\ PinAuthConstructed
  /\ WebIdle
  /\ storedPin = PinUnset

ConcurrentNext ==
  \/ \E c \in Callers : ConcurrentCall(c)
  \/ \E c \in Callers : Validate(c)
  \/ \E c \in Callers : BuildRealm(c)
  \/ \E c \in Callers : InjectData(c)
  \/ \E c \in Callers : StartRun(c)
  \/ \E c \in Callers : FinishRun(c)
  \/ \E c \in Callers : Timeout(c)
  \/ \E c \in Callers : ModeCatch(c)
  \/ \E c \in Callers : ExecuteCatch(c)

ConcurrentSpec == ConcurrentInit /\ [][ConcurrentNext]_vars

(***************************************************************************)
(* RepeatSpec: callers that may invoke execute() with the same arguments,  *)
(* one after another or interleaved.                                       *)
(***************************************************************************)
\* a script that reads a global of its context and then writes it
ReadThenWrite ==
  <<SVar("var", "was", ETypeof("g")), SAssign("g", ENum(1)), SReturn(EId("was"))>>

RepeatInputs ==
  { [prog |-> <<SReturn(ERandom)>>, tail |-> 0, data |-> PriceData, mode |-> "value"],
    [prog |-> ReadThenWrite, tail |-> 0, data |-> PriceData, mode |-> "value"],
    [prog |-> <<SAssign("g", ENum(1)), SWhile>>, tail |-> 0, data |-> Null, mode |-> "template"],
    [prog |-> <<SReturn(EId("process"))>>, tail |-> 0, data |-> Null, mode |-> "value"] }

RepeatCall(c) == \E input \in RepeatInputs : Invoke(c, input)

RepeatNext ==
  \/ \E c \in Callers : RepeatCall(c)
  \/ \E c \in Callers : Validate(c)
  \/ \E c \in Callers : BuildRealm(c)
  \/ \E c \in Callers : InjectData(c)
  \/ \E c \in Callers : StartRun(c)
  \/ \E c \in Callers : FinishRun(c)
  \/ \E c \in Callers : Timeout(c)
  \/ \E c \in Callers : ModeCatch(c)
  \/ \E c \in Callers : ExecuteCatch(c)

RepeatSpec == ConcurrentInit /\ [][RepeatNext]_vars

(***************************************************************************)
(* AuthSpec: the sessions of PinAuthService under any sequence of its      *)
(* operations, of clock steps and of runs of its interval.                 *)
(***************************************************************************)
AuthInit ==
  /\ PinAuthConstructed
  /\ WebIdle
  /\ storedPin = PinUnset
  /\ calls = [c \in {1} |-> IdleCall]
  /\ realms = <<>>
  /\ started = 0

AuthNext ==
  \/ OnModuleInit
  \/ OnModuleDestroy
  \/ CleanupTimer
  \/ CleanupExpiredSessions
  \/ \E token \in SessionTokens : GenerateSessionToken(token)
  \/ \E token \in SessionTokens : ValidateSession(token)
  \/ \E token \in SessionTokens : InvalidateSession(token)
  \/ \E step \in ClockSteps : Tick(step)

AuthSpec == AuthInit /\ [][AuthNext]_vars

(***************************************************************************)
(* PinSpec: validatePin under every configured PIN.  It reads the          *)
(* configuration and its argument, and no session.                         *)
(***************************************************************************)
PinInit ==
  /\ PinAuthConstructed
  /\ WebIdle
  /\ storedPin \in StoredPins
  /\ calls = [c \in {1} |-> IdleCall]
  /\ realms = <<>>
  /\ started = 0

PinNext == \E pin \in SubmittedPins : ValidatePin(pin)

PinSpec == PinInit /\ [][PinNext]_vars

(***************************************************************************)
(* UrlSpec: validateUrlSafety called with any of the URLs, the DNS giving  *)
(* any of the answers.                                                     *)
(***************************************************************************)
UrlInit ==
  /\ calls = [c \in {1} |-> IdleCall]
  /\ realms = <<>>
  /\ started = 0
  /\ PinAuthConstructed
  /\ WebIdle
  /\ storedPin = PinUnset

UrlNext ==
  \/ \E url \in Urls : ValidateUrlSafety(url)
  \/ \E answer4 \in Answers4, answer6 \in Answers6 : Resolved(answer4, answer6)

UrlSpec == UrlInit /\ [][UrlNext]_vars

(***************************************************************************)
(* AgentSpec: the lookup of a safe agent, called for one connection after  *)
(* another, the DNS giving any of the answers.                             *)
(***************************************************************************)
AgentNext ==
  \/ \E agent \in Agents, hostname \in LookupHostnames : Lookup(agent, hostname)
  \/ Resolve4Fails
  \/ \E addresses \in Resolve4Lists : Resolve4Gives(addresses)
  \/ \E lookupErr \in LookupErrors, addr \in LookupAddresses : LookupCallsBack(lookupErr, addr)

AgentSpec == UrlInit /\ [][AgentNext]_vars

(***************************************************************************)
(* FilterSpec: HttpExceptionFilter.catch for any exception and request.    *)
(***************************************************************************)
FilterNext == \E exception \in Exceptions, request \in Requests : Catch(exception, request)

FilterSpec == UrlInit /\ [][FilterNext]_vars

(***************************************************************************)
(* SettingsSpec: the two guarded routes of SettingsController, for a       *)
(* SETTING_KEYS fixed at the start.                                        *)
(***************************************************************************)
SettingsInit ==
  /\ calls = [c \in {1} |-> IdleCall]
  /\ realms = <<>>
  /\ started = 0
  /\ PinAuthConstructed
  /\ storedPin = PinUnset
  /\ check = IdleCheck
  /\ lookup = IdleLookup
  /\ reply = NoReply
  /\ allowedKeys \in KeyLists
  /\ stored = {}
  /\ served = NoAnswer

SettingsNext ==
  \/ \E key \in RouteKeys, value \in BodyValues : Update(key, value)
  \/ \E key \in RouteKeys : Delete(key)

SettingsSpec == SettingsInit /\ [][SettingsNext]_vars

(***************************************************************************)
(* The properties                                                          *)
(***************************************************************************)
Callings == DOMAIN calls

\* word occurs in text with no word character on either side of it
WholeWord(text, word) ==
  \E i \in 1..(Len(text) - Len(word) + 1) :
    /\ MatchesAt(text, word, i)
    /\ WordBoundary(text, i - 1)
    /\ WordBoundary(text, i + Len(word) - 1)

HasToken(text) == \E i \in 1..Len(Tokens) : WholeWord(text, Chars(Tokens[i]))

\* the realm an invocation's script runs in
RealmOf(call) == realms[call.ctx]

\* C1: execute() never lets an exception escape to its caller, whatever the
\* script throws and even when making the message text of what was thrown fails.
C1_NoExceptionEscapes ==
  \A c \in Callings : calls[c].pc # "Escaped"

\* C2: every object reachable from a binding of a realm was created in that
\* realm, and $ is what the realm's JSON.parse makes of the JSON text of the
\* caller's data.
C2_NoHostObjectInRealm ==
  /\ \A id \in DOMAIN realms : \A i \in DOMAIN realms[id].sandbox :
       RefsOf(realms[id].sandbox[i].v) \subseteq {id}
  /\ \A c \in Callings :
       calls[c].pc = "Executing" =>
         \E text \in {JSONStringify(IF calls[c].data.t = "undefined" THEN Null
                                    ELSE calls[c].data, Host)} :
           /\ text.k = "text"
           /\ EnvGet(RealmOf(calls[c]).sandbox, Chars("$"))
                = JSONParse(text.s, calls[c].ctx).v

C2_Witness ==
  \E c \in Callings :
    /\ calls[c].pc = "Executing"
    /\ calls[c].data = NestedData
    /\ RefsOf(NestedData) = {Host}
    /\ RefsOf(EnvGet(RealmOf(calls[c]).sandbox, Chars("$"))) = {calls[c].ctx}
    /\ GetProp(GetProp(EnvGet(RealmOf(calls[c]).sandbox, Chars("$")), Chars("rates")),
               Chars("mid")) = Num(4)

\* C3: code of at most 10000 characters that holds a denylisted token as a
\* whole word is never compiled or run, in either mode, and its call fails
\* with an error that holds "forbidden keyword" and a token of the code.
C3_DenylistedTokenRejected ==
  \A c \in Callings :
    (/\ calls[c].pc # "idle"
     /\ CodeLength(calls[c].code) <= MAX_SCRIPT_LENGTH
     /\ HasToken(calls[c].code.text))
    => /\ calls[c].compiled = 0
       /\ calls[c].ran = 0
       /\ calls[c].pc \in {"try", "executeCatch", "Failed"}
       /\ calls[c].pc = "try" => calls[c].done = 0
       /\ calls[c].pc = "Failed" =>
            /\ calls[c].result.success = FALSE
            /\ Contains(calls[c].result.error, Chars("forbidden keyword"))
            /\ \E i \in 1..Len(Tokens) :
                 /\ WholeWord(calls[c].code.text, Chars(Tokens[i]))
                 /\ Contains(calls[c].result.error, Chars(Tokens[i]))

C3_Witness ==
  \E c \in Callings :
    /\ calls[c].pc = "Failed"
    /\ calls[c].mode = "template"
    /\ CodeLength(calls[c].code) = MAX_SCRIPT_LENGTH
    /\ WholeWord(calls[c].code.text, Chars("eval"))
    /\ Contains(calls[c].result.error, Chars("forbidden keyword: eval"))

\* C4: a call whose code the validator rejects (too long, or a denylisted
\* token) never creates a context, injects data, compiles or runs a script.
C4_RejectedBeforeRealm ==
  \A c \in Callings :
    (calls[c].pc # "idle" /\ ~validateScript(calls[c].code).ok)
    => /\ calls[c].built = 0
       /\ calls[c].ctx = 0
       /\ calls[c].injected = 0
       /\ calls[c].compiled = 0
       /\ calls[c].ran = 0

C4_Witness ==
  \E c \in Callings :
    /\ calls[c].pc = "Failed"
    /\ CodeLength(calls[c].code) = MAX_SCRIPT_LENGTH + 1
    /\ Contains(calls[c].result.error, Chars("Script too large"))
    /\ calls[c].built = 0
    /\ realms = <<>>

\* C5: no code written by the user runs for a call outside the deadline of
\* runInContext, so no call is left running user code with nothing to end it.
C5_NoUserCodeOutsideDeadline ==
  \A c \in Callings : ~calls[c].untimed /\ calls[c].pc # "Hung"

\* the call ran into a loop that never ends, in its script or in code of the
\* script that ran for the call
EnteredLoop(call) == call.pc = "Hung" \/ call.error = TimeoutError

\* C6: a call whose validated script ran into a loop that never ends is over
\* only as a failure whose error holds "timed out", in both modes.
C6_LoopReportedAsTimeout ==
  \A c \in Callings :
    (EnteredLoop(calls[c]) /\ calls[c].pc \in Ended)
    => /\ calls[c].pc = "Failed"
       /\ Contains(calls[c].result.error, Chars("timed out"))

\* C7: a returned result is well formed: a failure has success, error and
\* nothing else; a success has success and value in value mode, success and
\* variables in template mode, and nothing else.
C7_ResultWellFormed ==
  \A c \in Callings :
    /\ calls[c].pc \in Returned_pcs =>
         /\ "success" \in DOMAIN calls[c].result
         /\ calls[c].result.success = (calls[c].pc = "Succeeded")
         /\ DOMAIN calls[c].result =
              IF ~calls[c].result.success THEN {"success", "error"}
              ELSE IF calls[c].mode = "value" THEN {"success", "value"}
              ELSE {"success", "variables"}
    /\ calls[c].pc \notin Returned_pcs => calls[c].result = NoResult

C7_Witness ==
  \E c \in Callings :
    /\ calls[c].pc = "Succeeded"
    /\ calls[c].mode = "template"
    /\ calls[c].result.variables.t = "object"
    /\ HasProp(calls[c].result.variables, Chars("b"))

\* the context a call's script must find: a new scrubbed context holding
\* nothing but the call's own $
OwnRealm(call) == InjectOutcome(call.data, ScrubContext(NewContext), call.ctx).v

\* C8: no two calls work in the same context, and the script of a call runs
\* in a context that holds nothing any other call's script wrote.
C8_NoSharedRealm ==
  /\ \A c, d \in Callings :
       (c # d /\ calls[c].ctx # 0 /\ calls[d].ctx # 0) => calls[c].ctx # calls[d].ctx
  /\ \A c \in Callings :
       calls[c].pc = "Executing" => RealmOf(calls[c]) = OwnRealm(calls[c])

C8_Witness ==
  \E c, d \in Callings :
    /\ c # d
    /\ calls[c].ctx # 0
    /\ calls[d].ctx # 0
    /\ EnvHas(RealmOf(calls[c]).sandbox, Chars("g"))
    /\ calls[c].pc = "Succeeded"
    /\ calls[d].pc = "Executing"
    /\ calls[d].serial > calls[c].serial
    /\ ~EnvHas(RealmOf(calls[d]).sandbox, Chars("g"))
    /\ EnvGet(RealmOf(calls[d]).sandbox, Chars("$")).t = "object"

\* C9: what a call returns, its value or its variables, holds no reference to
\* an object of the realm of the call.
C9_NoRealmReferenceReturned ==
  \A c \in Callings :
    calls[c].pc = "Succeeded" =>
      RefsOf(IF calls[c].mode = "value" THEN calls[c].result.value
             ELSE calls[c].result.variables) = {}

RemovedGlobals ==
  { Chars("Function"), Chars("eval"), Chars("Proxy"), Chars("Reflect"), Chars("Symbol"),
    Chars("WeakRef"), Chars("FinalizationRegistry") }

UsableGlobals == { Chars("Math"), Chars("JSON"), Chars("parseInt"), Chars("parseFloat") }

\* C10: in the context a script runs in, Function, eval, Proxy, Reflect,
\* Symbol, WeakRef and FinalizationRegistry are bound to nothing at all, and
\* Math, JSON, parseInt and parseFloat are the built-ins of the context.
C10_ScrubbedGlobalsAbsent ==
  \A c \in Callings :
    calls[c].pc = "Executing" =>
      /\ \A name \in RemovedGlobals : ~GlobalBound(RealmOf(calls[c]), name)
      /\ \A name \in UsableGlobals :
           GlobalGet(RealmOf(calls[c]), calls[c].ctx, name) = Builtin(calls[c].ctx, name)

RECURSIVE IsJSONValue(_)
\* a value that JSON text can spell: null, a boolean, a number, a string, or
\* an object of such values
IsJSONValue(v) ==
  \/ v.t \in {"null", "boolean", "number", "string"}
  \/ v.t = "object" /\ \A i \in 1..Len(v.props) : IsJSONValue(v.props[i].v)

RECURSIVE Plain(_)
\* a value without the realm of its objects: what structural equality compares
Plain(v) ==
  IF v.t = "object"
  THEN [t |-> "object",
        props |-> [i \in 1..Len(v.props) |->
                     [k |-> v.props[i].k, v |-> Plain(v.props[i].v)]]]
  ELSE v

\* execute('return $', data, 'value')
ReturnsData(call) == call.prog = <<SReturn(EId("$"))>> /\ call.mode = "value"

\* C11: execute('return $', data, 'value') with data that JSON can spell, or
\* with undefined data, never fails, and its value is structurally equal to
\* the data, undefined data giving null.
C11_DataRoundTrip ==
  \A c \in Callings :
    (/\ calls[c].pc # "idle"
     /\ ReturnsData(calls[c])
     /\ (calls[c].data = Undefined \/ IsJSONValue(calls[c].data)))
    => /\ calls[c].pc \in {"try", "Executing", "Succeeded"}
       /\ calls[c].pc = "Succeeded" =>
            /\ calls[c].result.success
            /\ Plain(calls[c].result.value)
                 = Plain(IF calls[c].data = Undefined THEN Null ELSE calls[c].data)

C11_Witness ==
  \E c \in Callings :
    /\ calls[c].pc = "Succeeded"
    /\ ReturnsData(calls[c])
    /\ calls[c].data = JSONData
    /\ calls[c].result.value.realm = calls[c].ctx
    /\ GetProp(calls[c].result.value, Chars("name")) = Str(Chars("a\"b\\c"))

\* the two calls were given the same code, data and mode
SameArguments(a, b) ==
  a.prog = b.prog /\ a.code = b.code /\ a.data = b.data /\ a.mode = b.mode

\* a result without the realm of its objects
PlainResult(r) ==
  IF "value" \in DOMAIN r THEN [success |-> r.success, value |-> Plain(r.value)]
  ELSE IF "variables" \in DOMAIN r THEN [success |-> r.success, variables |-> Plain(r.variables)]
  ELSE r

\* two calls that are over ended the same way, with structurally equal results
SameResult(a, b) == a.pc = b.pc /\ PlainResult(a.result) = PlainResult(b.result)

\* the script draws a number from the random source of its context
DrawsRandom(call) == Contains(call.code.text, Chars("Math.random()"))

\* C12 (as stated): two calls with the same code, data and mode that are over
\* have structurally equal results, whatever the script is.
C12_SameArgumentsSameResult ==
  \A c, d \in Callings :
    (/\ calls[c].pc \in Ended
     /\ calls[d].pc \in Ended
     /\ SameArguments(calls[c], calls[d]))
    => SameResult(calls[c], calls[d])

\* C12 (amended): two calls with the same code, data and mode whose script
\* draws no random number have structurally equal results, whatever other
\* calls ran before them or between them.
C12_SameResultUnlessRandom ==
  \A c, d \in Callings :
    (/\ calls[c].pc \in Ended
     /\ calls[d].pc \in Ended
     /\ SameArguments(calls[c], calls[d])
     /\ ~DrawsRandom(calls[c]))
    => SameResult(calls[c], calls[d])

C12_Witness ==
  \E c, d \in Callings :
    /\ c # d
    /\ calls[c].prog = ReadThenWrite
    /\ calls[d].prog = ReadThenWrite
    /\ calls[c].pc = "Succeeded"
    /\ calls[d].pc = "Succeeded"
    /\ calls[c].serial < calls[d].serial
    /\ EnvHas(RealmOf(calls[c]).sandbox, Chars("g"))
    /\ calls[d].result.value = Str(Chars("undefined"))

\* the user script of a call run by itself in the context the call made for
\* it, Math.random() giving it `draw`
UserScriptRun(call, draw) ==
  Exec(call.prog,
       [locals   |-> <<>>,
        sandbox  |-> OwnRealm(call).sandbox,
        builtins |-> OwnRealm(call).builtins,
        random   |-> draw,
        out      |-> Completed("none")],
       call.ctx, Builtin(call.ctx, Chars("globalThis")))

\* what a name is bound to when the run is in state st
BoundTo(st, ctx, name) ==
  IF EnvHas(st.locals, name) THEN EnvGet(st.locals, name) ELSE GlobalGet(st, ctx, name)

\* the declared names that are bound to a defined value in run state st, each
\* with that value
DeclaredValues(call, st) ==
  { [k |-> name, v |-> Plain(BoundTo(st, call.ctx, name))] :
      name \in { n \in { extractVariableNames(call.code)[i] :
                            i \in 1..Len(extractVariableNames(call.code)) } :
                   TypeofValue(BoundTo(st, call.ctx, n)) # Chars("undefined") } }

\* the keys of an object, each with its value
Entries(obj) == { [k |-> obj.props[i].k, v |-> Plain(obj.props[i].v)] : i \in 1..Len(obj.props) }

\* C13: the variables of a successful template call are an object whose keys
\* are exactly the declared names bound to a defined value when the user
\* script finishes, each with its final value.
C13_VariablesAreDeclaredNames ==
  \A c \in Callings :
    (calls[c].pc = "Succeeded" /\ calls[c].mode = "template")
    => /\ calls[c].result.variables.t = "object"
       /\ \E draw \in RandomDraws :
            Entries(calls[c].result.variables)
              = DeclaredValues(calls[c], UserScriptRun(calls[c], draw))

StartsWith(text, prefix) == MatchesAt(text, prefix, 1)

\* C14: the variables of a successful template call have no key that begins
\* with __, whatever the user script declares or assigns.
C14_NoInternalNameInVariables ==
  \A c \in Callings :
    (/\ calls[c].pc = "Succeeded"
     /\ calls[c].mode = "template"
     /\ calls[c].result.variables.t = "object")
    => \A i \in 1..Len(calls[c].result.variables.props) :
         ~StartsWith(calls[c].result.variables.props[i].k, Chars("__"))

ValidationThrew(call) == call.pc = "executeCatch" /\ call.done = 0

\* C16: code of more than 10000 characters is never compiled or run and its
\* call fails with an error that holds "too large" and names no forbidden
\* keyword, whatever the code holds; code of 10000 characters or fewer is
\* never turned away for its size.
C16_OversizeRejected ==
  \A c \in Callings :
    /\ (calls[c].pc # "idle" /\ CodeLength(calls[c].code) > MAX_SCRIPT_LENGTH)
       => /\ calls[c].compiled = 0
          /\ calls[c].ran = 0
          /\ calls[c].pc = "try" \/ ValidationThrew(calls[c]) \/ calls[c].pc = "Failed"
          /\ calls[c].pc = "try" => calls[c].done = 0
          /\ calls[c].pc = "Failed" =>
               /\ calls[c].result.success = FALSE
               /\ Contains(calls[c].result.error, Chars("too large"))
               /\ ~Contains(calls[c].result.error, Chars("forbidden keyword"))
    /\ (ValidationThrew(calls[c]) /\ CodeLength(calls[c].code) <= MAX_SCRIPT_LENGTH)
       => ~Contains(calls[c].error.message, Chars("too large"))
    /\ (calls[c].pc # "idle" /\ CodeLength(calls[c].code) <= MAX_SCRIPT_LENGTH
          /\ ~HasToken(calls[c].code.text))
       => ~ValidationThrew(calls[c])

C16_Witness ==
  \E c \in Callings :
    /\ calls[c].pc = "Failed"
    /\ CodeLength(calls[c].code) = MAX_SCRIPT_LENGTH + 1
    /\ WholeWord(calls[c].code.text, Chars("eval"))
    /\ calls[c].result.error = Chars("Script too large: 10001 characters (max 10000)")

\* C17: a failed result holds "too large" only when the code was too long,
\* "forbidden keyword" only when the denylist turned the code away, and
\* "timed out" only when the run was ended by the timeout.
C17_MarkerOnlyForItsCategory ==
  \A c \in Callings :
    calls[c].pc = "Failed" =>
      /\ Contains(calls[c].result.error, Chars("too large"))
           => CodeLength(calls[c].code) > MAX_SCRIPT_LENGTH
      /\ Contains(calls[c].result.error, Chars("forbidden keyword"))
           => (calls[c].ran = 0 /\ HasToken(calls[c].code.text))
      /\ Contains(calls[c].result.error, Chars("timed out"))
           => calls[c].error = TimeoutError

\* C18: validateSession returns true only for a token that generateSessionToken
\* issued, that was never passed to invalidateSession, and that was created
\* no more than the session age (30 days) before the call
C18_ValidOnlyIssuedLiveYoung ==
  (answer.op = "validateSession" /\ answer.result) =>
    /\ \E i \in issued : i.token = answer.token /\ now - i.createdAt <= SESSION_MAX_AGE_MS
    /\ answer.token \notin revoked

\* a token exactly as old as the session age is accepted, after another token
\* was revoked, the clock was moved and the store was cleaned
C18_Witness ==
  /\ answer.op = "validateSession" /\ answer.result
  /\ \E i \in issued : i.token = answer.token /\ now - i.createdAt = SESSION_MAX_AGE_MS
  /\ revoked # {}
  /\ ticks > 1

\* C19: validateSession never returns true for a token that was passed to
\* invalidateSession before, or that validateSession answered false for before
C19_RefusedStaysRefused ==
  (answer.op = "validateSession" /\ answer.result) =>
    answer.token \notin (revoked \cup refused)

\* an issued token is refused after its invalidation though it is young
\* enough, and another issued
\* token was refused before because it had expired
C19_Witness ==
  /\ answer.op = "validateSession" /\ ~answer.result
  /\ answer.token \in revoked
  /\ \E i \in issued : i.token = answer.token /\ now - i.createdAt <= SESSION_MAX_AGE_MS
  /\ \E i \in issued : /\ i.token \in refused \ revoked
                        /\ now - i.createdAt > SESSION_MAX_AGE_MS

\* C20: validatePin(pin) returns true if and only if a non-empty admin PIN
\* is configured and pin is exactly equal to it
C20_TrueIffExactlyTheConfiguredPin ==
  answer.op = "validatePin" =>
    (answer.result <=> (storedPin.set /\ storedPin.pin # <<>> /\ answer.pin = storedPin.pin))

\* the steps a call has taken are the first ones of validate, build, inject,
\* run, in that order and each taken once
LinearSteps(call) ==
  /\ call.built <= 1 /\ call.injected <= 1 /\ call.compiled <= 1 /\ call.ran <= 1
  /\ call.ran <= call.compiled /\ call.compiled <= call.injected
  /\ call.injected <= call.built
  /\ call.built = 1 => call.done >= 2 /\ validateScript(call.code).ok
  /\ call.injected = 1 => call.done >= 3
  /\ call.pc = "Executing" => call.done = 3 /\ call.ran = 1
  /\ call.pc = "Succeeded" => call.done = 3 /\ call.ran = 1

\* C22: a call takes validation, realm build, injection and script run in
\* that order, each at most once, and when it is over it is over as
\* Succeeded or as Failed
C22_LinearEndingInSucceededOrFailed ==
  \A c \in Callings :
    /\ LinearSteps(calls[c])
    /\ calls[c].pc \in Ended => calls[c].pc \in Returned_pcs

\* word occurs in text as an identifier of its own: no identifier character
\* (letter, digit, _ or $) stands before or after the occurrence
OwnIdentifier(text, word) ==
  \E i \in 1..(Len(text) - Len(word) + 1) :
    /\ MatchesAt(text, word, i)
    /\ i > 1 => text[i - 1] \notin IdentChars
    /\ i + Len(word) <= Len(text) => text[i + Len(word)] \notin IdentChars

\* C23: code of at most 10000 characters is rejected by the validator if and
\* only if a denylisted token occurs in it as a whole word, a token inside a
\* longer identifier (_process, processData, $process, evaluate) not counting
C23_RejectedIffWholeWord ==
  \A c \in Callings :
    (calls[c].pc # "idle" /\ CodeLength(calls[c].code) <= MAX_SCRIPT_LENGTH)
    => (~validateScript(calls[c].code).ok
          <=> \E i \in 1..Len(Tokens) : OwnIdentifier(calls[c].code.text, Chars(Tokens[i])))

\* JSON.stringify(data ?? null) gives no text: it throws (a cycle, a BigInt)
\* or gives undefined (a function at the top level)
Unrenderable(data) ==
  JSONStringify(IF data.t = "undefined" THEN Null ELSE data, Host).k # "text"

\* C24: when the caller's data has no JSON text, the user script is never
\* compiled or run, and the call is over only as a failure with an error
C24_UnrenderableDataFails ==
  \A c \in Callings :
    (calls[c].pc # "idle" /\ Unrenderable(calls[c].data))
    => /\ calls[c].compiled = 0
       /\ calls[c].ran = 0
       /\ calls[c].injected = 0
       /\ calls[c].pc \in Ended =>
            /\ calls[c].pc = "Failed"
            /\ calls[c].result.success = FALSE
            /\ calls[c].result.error # <<>>

\* a call with valid code has failed on a top-level function as data, after
\* its context was built
C24_Witness ==
  \E c \in Callings :
    /\ calls[c].pc = "Failed"
    /\ calls[c].data.t = "function"
    /\ validateScript(calls[c].code).ok
    /\ calls[c].built = 1
    /\ calls[c].result.error # <<>>

\* the names the declared-variable scan proposes for a call
ProposedNames(call) ==
  { extractVariableNames(call.code)[i] : i \in 1..Len(extractVariableNames(call.code)) }

\* the user script of a call is valid by itself: it passes the validator, it
\* compiles, and run in the call's context it ends without a throw or a return
ValidByItself(call) ==
  /\ validateScript(call.code).ok
  /\ ~HasGarbage(call.prog)
  /\ \A draw \in RandomDraws : UserScriptRun(call, draw).out.k = "none"

\* the proposed names that are bound to nothing when the user script has ended
UnboundNames(call) ==
  { n \in ProposedNames(call) :
      \A draw \in RandomDraws :
        TypeofValue(BoundTo(UserScriptRun(call, draw), call.ctx, n)) = Chars("undefined") }

\* C25: a template call whose script is valid by itself succeeds although the
\* scan proposed a name that is bound to nothing at the end of the script, and
\* its variables have no key of that name
C25_UnboundNameOnlyOmitted ==
  \A c \in Callings :
    (/\ calls[c].pc \in Ended
     /\ calls[c].mode = "template"
     /\ calls[c].injected = 1
     /\ ValidByItself(calls[c])
     /\ UnboundNames(calls[c]) # {})
    => /\ calls[c].pc = "Succeeded"
       /\ calls[c].result.variables.t = "object"
       /\ \A i \in 1..Len(calls[c].result.variables.props) :
            calls[c].result.variables.props[i].k \notin UnboundNames(calls[c])

\* the data of a call holds a denylisted token, text written as code, or more
\* than MAX_SCRIPT_LENGTH characters
CodeLikeData(data) ==
  data \in { Str(Chars("process")), TokenKeyData, LargeData } \cup CodeTextData

\* the context of a call binds what a new context binds, and $
OnlyDollarAdded(call) ==
  { RealmOf(call).sandbox[i].k : i \in DOMAIN RealmOf(call).sandbox }
    = { ScrubContext(NewContext).sandbox[i].k : i \in DOMAIN ScrubContext(NewContext).sandbox }
        \cup { Chars("$") }

\* C26: a call whose data looks like code or is large is rejected by the
\* validator only for its script text; when the script passes, the data is
\* injected, the script is run, and when it starts its context holds the data
\* as the value of $ and no other binding the data could have made
C26_DataIsNeverCode ==
  \A c \in Callings :
    (calls[c].pc # "idle" /\ CodeLikeData(calls[c].data))
    => /\ calls[c].pc \in {"executeCatch", "Failed"} /\ calls[c].ran = 0
            => ~validateScript(calls[c].code).ok
       /\ calls[c].pc \in Ended /\ validateScript(calls[c].code).ok
            => calls[c].injected = 1 /\ calls[c].ran = 1
       /\ calls[c].pc = "Executing"
            => /\ OnlyDollarAdded(calls[c])
               /\ Plain(EnvGet(RealmOf(calls[c]).sandbox, Chars("$"))) = Plain(calls[c].data)

\* a call with large data has succeeded, and one with data that would end the
\* string literal of initScript has returned it
C26_Witness ==
  /\ \E c \in Callings :
       calls[c].pc = "Succeeded" /\ calls[c].data = LargeData /\ calls[c].mode = "value"
         /\ calls[c].result.value = LargeData
  /\ \E id \in DOMAIN realms :
       /\ EnvHas(realms[id].sandbox, Chars("$"))
       /\ EnvGet(realms[id].sandbox, Chars("$")) = Str(Chars("\"); g = 1; (\""))

\* C27: validateSession answers for every token as it would had
\* cleanupExpiredSessions never run, and right after a cleanup the store holds
\* exactly the sessions of that other store that are at most the session age
\* (30 days) old
C27_CleanupIsUnobservable ==
  /\ \A token \in SessionTokens :
       validateSession(sessions, token, now).result
         = validateSession(uncleaned, token, now).result
  /\ answer.op = "cleanupExpiredSessions" =>
       sessions = { s \in uncleaned : now - s.createdAt <= SESSION_MAX_AGE_MS }

\* a cleanup has removed an expired session that no validateSession had met,
\* and has kept a session that is exactly as old as the session age
C27_Witness ==
  /\ answer.op = "cleanupExpiredSessions"
  /\ \E s \in uncleaned : s \notin sessions
  /\ \E s \in sessions : now - s.createdAt = SESSION_MAX_AGE_MS

\* an address literal as a hostname carries it: without the brackets of IPv6
Unbracketed(hostname) ==
  IF hostname # <<>> /\ hostname[1] = "[" THEN SubSeq(hostname, 2, Len(hostname) - 1)
  ELSE hostname

\* the value of a group of hexadecimal digits
HexValue(group) ==
  LET digit(ch) == CHOOSE d \in 0..15 : Chars("0123456789abcdef")[d + 1] = ch
      RECURSIVE value(_, _)
      value(i, acc) == IF i > Len(group) THEN acc ELSE value(i + 1, acc * 16 + digit(group[i]))
  IN  value(1, 0)

\* address is ::ffff:hhhh:hhhh, an IPv4 address of a private range mapped into IPv6
MappedHexPrivate(address) ==
  /\ Len(address) > 7
  /\ SubSeq(address, 1, 7) = Chars("::ffff:")
  /\ LET groups == Split(SubSeq(address, 8, Len(address)), ":")
     IN  /\ Len(groups) = 2
         /\ \A g \in 1..2 : groups[g] # <<>> /\
              \A k \in 1..Len(groups[g]) : \E d \in 1..16 : Chars("0123456789abcdef")[d] = groups[g][k]
         /\ PrivateRange(HexValue(groups[1]) \div 256, HexValue(groups[1]) % 256)

\* hostname is a private, loopback or link-local address literal
PrivateLiteral(hostname) ==
  isPrivateIp(Unbracketed(hostname)) \/ MappedHexPrivate(Unbracketed(hostname))

\* C21: validateUrlSafety returns without throwing only for a URL that parses,
\* with protocol http: or https:, whose hostname is no blocked internal name
\* and no private, loopback or link-local address literal (IPv4, IPv6 or
\* IPv4-mapped IPv6), and for which no resolved address is private
C21_ReturnsOnlyForSafeUrl ==
  check.pc = "returned" =>
    /\ ParseURL(check.url).ok
    /\ ParseURL(check.url).protocol \in { Chars("http:"), Chars("https:") }
    /\ ParseURL(check.url).hostname \notin BLOCKED_HOSTNAMES
    /\ ~PrivateLiteral(ParseURL(check.url).hostname)
    /\ \A i \in 1..Len(check.resolved) : ~isPrivateIp(check.resolved[i])

\* C28: an address a safe agent's lookup hands to its callback without an
\* error is the address it asked isPrivateIp about, one the DNS gave for this
\* call, and not private, on the resolve4 path and on the dns.lookup path; a
\* private address is reported as an ECONNREFUSED error with no address
C28_HandsOnlyTheCheckedAddress ==
  lookup.pc = "called back" =>
    /\ lookup.callback.err = NoError =>
         /\ lookup.callback.address = lookup.callback.asked
         /\ \E i \in 1..Len(lookup.given) : lookup.given[i] = lookup.callback.address
         /\ ~isPrivateIp(lookup.callback.address)
    /\ (lookup.callback.asked # NotAsked /\ isPrivateIp(lookup.callback.asked)) =>
         /\ lookup.callback.err.code = "ECONNREFUSED"
         /\ lookup.callback.address = <<>>

\* the https agent was given a public address followed by a private one by
\* resolve4 and handed on the public one
C28_Witness ==
  /\ lookup.pc = "called back"
  /\ lookup.agent = "https"
  /\ lookup.path = "resolve4"
  /\ lookup.given = <<Chars("93.184.216.34"), Chars("10.0.0.1")>>
  /\ lookup.callback.err = NoError
  /\ lookup.callback.address = Chars("93.184.216.34")

\* the keys of a response body
BodyKeys(body) == { body.props[i].k : i \in 1..Len(body.props) }

\* C29: the reply to an exception that is no HttpException has status 500,
\* the message 'Internal server error' and nothing of the exception; the path
\* of every reply's body and log line is the request URL up to its first '?'
C29_FixedMessageAndStrippedPath ==
  reply.sent =>
    /\ reply.exception.kind # "http" =>
         /\ reply.status = 500
         /\ GetProp(reply.body, Chars("statusCode")) = Num(500)
         /\ GetProp(reply.body, Chars("message")) = Str(Chars("Internal server error"))
         /\ BodyKeys(reply.body) = { Chars("statusCode"), Chars("timestamp"), Chars("path"),
                                     Chars("method"), Chars("message") }
    /\ GetProp(reply.body, Chars("path")) = Str(Before(reply.request.url, {"?"}))
    /\ "?" \notin { GetProp(reply.body, Chars("path")).s[i] :
                      i \in 1..Len(GetProp(reply.body, Chars("path")).s) }
    /\ StartsWith(reply.log.line,
                  reply.request.method \o Chars(" ") \o Before(reply.request.url, {"?"}))
    /\ reply.log.level = "error" =>
         reply.log.line = reply.request.method \o Chars(" ") \o Before(reply.request.url, {"?"})

\* the values of SETTING_KEYS
SettingKeys == { allowedKeys[i] : i \in 1..Len(allowedKeys) }

\* C30: update and delete call SettingsService.set / SettingsService.delete
\* only with a key that is a value of SETTING_KEYS; for any other key they
\* throw BadRequestException and leave the stored settings as they were
C30_ServiceOnlyForAllowedKey ==
  [][ /\ served'.called # NoCall =>
           /\ served'.called.key \in SettingKeys
           /\ served'.called.key = served'.key
      /\ served'.key \notin SettingKeys =>
           /\ served'.called = NoCall
           /\ served'.outcome.kind = "threw"
           /\ served'.outcome.name = "BadRequestException"
           /\ stored' = stored
      /\ \A r \in stored' : r.key \in SettingKeys ]_vars

\* a key that differs from an allowed key only by its case was refused while
\* a setting was stored
C30_Witness ==
  /\ served.op \in { "update", "delete" }
  /\ served.key \notin SettingKeys
  /\ ToLowerCase(served.key) \in SettingKeys
  /\ served.outcome.kind = "threw"
  /\ served.called = NoCall
  /\ stored # {}
====
